---- MODULE Spec2Model ----
(***************************************************************************)
(* SDMox (app/sd_mox.py): the engine that turns a directory-side change of *)
(* an organisational unit into a document for the SD registry, publishes   *)
(* it over AMQP and polls the registry until the change can be read back.  *)
(*                                                                         *)
(* Texts (names, unit codes, address labels) are sequences of one-letter   *)
(* strings, so that len, startswith, isalnum, upper and rsplit are         *)
(* computed and not assumed.  Python's None is "None" for atomic values    *)
(* and NoneText for texts.                                                 *)
(***************************************************************************)
EXTENDS Integers, Sequences, FiniteSets, TLC

VARIABLES
    pc,                  \* position of the running public operation
    op,                  \* the public operation that was invoked
    at,                  \* the "at" argument of the running operation (NoDate: none)
    dry_run,             \* its dry_run argument
    amqp_check_retries,  \* settings.amqp_check_retries
    unit_data,           \* create_unit: the unit_data argument
    payload,             \* create_unit / move_unit: the _payload_create result
    operation,           \* _check_unit: payload["operation"] (ret, import, flyt)
    check_args,          \* _check_unit: the keyword arguments given to _check_department
    i,                   \* _check_unit: number of loop iterations completed
    unit,                \* _check_unit: the local variable unit
    errors,              \* _check_unit: the local variable errors
    channel,             \* self.channel (0: never connected)
    callback_queue,      \* self.callback_queue (0: never declared)
    connections,         \* broker side: connections opened so far
    published,           \* broker side: documents published, in order
    pending,             \* registry side: published documents not yet processed
    sdUnit,              \* registry side: what getDepartment answers for the unit
    virkning,            \* self.virkning: the effective-from date (NoDate: not set)
    times,               \* self._times: virk_from and virk_to (NoTimes: not set)
    sd_levels,           \* self.sd_levels: the (level key, class uuid) items, in order
    level_by_uuid,       \* self.level_by_uuid: class uuid -> level key
    from_date,           \* the from_date the engine was constructed with (NoDate: None)
    to_date,             \* the to_date the engine was constructed with (NoDate: None)
    other,               \* the suspended invocation on the same engine: its locals
    reads,               \* the dates the registry was asked about (getDepartment, getDepartmentParent)
    log,                 \* history: the steps the operation has performed
    result,              \* outcome of the operation ("" while it runs)
    call,                \* a helper method invoked on its own, and its arguments
    ret                  \* what that helper returned (<<>> until it has)

vars == <<pc, op, dry_run, at, reads, other, amqp_check_retries, unit_data, payload, operation,
          check_args, i, unit, errors, channel, callback_queue, connections,
          published, pending, sdUnit, virkning, times, sd_levels, level_by_uuid,
          from_date, to_date, log, result, call, ret>>

-----------------------------------------------------------------------------
(* Bounds of the model *)

\* largest configured retry count (settings.amqp_check_retries ranges over 0..MaxRetries)
MaxRetries == 2
\* longest list of address records the directory (or unit_data["details"]) holds
MaxAddrs == 2
\* longest address label handed to _mo_to_sd_address on its own
MaxLabelLen == 8

(* Program constants *)

\* len(unit_code) < 2
MinCodeLen == 2
\* len(unit_code) > 4
MaxCodeLen == 4
\* address.rsplit(" ", maxsplit=2)
MaxSplit == 2

-----------------------------------------------------------------------------
(* Values *)

None == "None"
NoneText == <<"None">>

UpperChars == {"A", "B", "C", "D"}
LowerChars == {"a", "b"}
DigitChars == {"1", "2", "4"}

\* str.upper on one character
UpperOf(c) == CASE c = "a" -> "A" [] c = "b" -> "B" [] OTHER -> c

\* str.upper
upper(s) == [k \in 1..Len(s) |-> UpperOf(s[k])]

\* str.isalnum: non-empty and every character a letter or a digit
isalnum(s) == Len(s) > 0 /\ \A k \in 1..Len(s) : s[k] \in UpperChars \cup LowerChars \cup DigitChars

\* the elements of a sequence, and how often x occurs in it
Range(s) == {s[k] : k \in 1..Len(s)}
Count(s, x) == Cardinality({k \in 1..Len(s) : s[k] = x})

\* str.startswith
startswith(s, prefix) == Len(prefix) <= Len(s) /\ SubSeq(s, 1, Len(prefix)) = prefix

\* str.endswith, for a one-character suffix
endswith(s, c) == Len(s) > 0 /\ s[Len(s)] = c

\* datetime.date
date(y, m, d) == [year |-> y, month |-> m, day |-> d]

\* None where a date is expected, and a date attribute that was never set
NoDate == date(0, 0, 0)

FromDate == date(2019, 7, 1)
OldDate == date(2019, 1, 1)
MidMonth == date(2019, 7, 15)
EndDate == date(2020, 1, 1)

\* to_date = date(9999, 12, 31)
VirkTo == date(9999, 12, 31)

UnitUuid == "uuid-unit"
ParentUuid == "uuid-parent"
OtherUuid == "uuid-other"

\* settings.ou_levelkeys, in the configured order (index = rank)
ou_levelkeys == <<"NY2-niveau", "NY1-niveau", "Afdelings-niveau">>

\* MO's class uuid of each level key (_fetch_class_map("org_unit_level"))
ClassUuid(key) == CASE key = "NY2-niveau" -> "uuid-ny2"
                    [] key = "NY1-niveau" -> "uuid-ny1"
                    [] key = "Afdelings-niveau" -> "uuid-afd"

LevelKeys == {ou_levelkeys[k] : k \in 1..Len(ou_levelkeys)}
UnknownLevelUuid == "uuid-unknown-level"
UnknownLevelKey == "Ukendt-niveau"

\* _read_ou_levelkeys: the ordered dict of (level key, class uuid) items, in
\* the order of settings.ou_levelkeys
read_ou_levelkeys ==
    [k \in 1..Len(ou_levelkeys) |-> <<ou_levelkeys[k], ClassUuid(ou_levelkeys[k])>>]

\* {v: k for k, v in items}: the last item of a value gives its key
inverse(items) ==
    [v \in {items[k][2] : k \in 1..Len(items)} |->
        items[CHOOSE k \in 1..Len(items) :
                 /\ items[k][2] = v
                 /\ \A m \in 1..Len(items) : items[m][2] = v => m <= k][1]]

\* self.level_by_uuid.get(uuid): None when unmapped
level_by_uuid_get(uuid) ==
    IF uuid \in DOMAIN level_by_uuid THEN level_by_uuid[uuid] ELSE None

\* list(self.sd_levels.keys()).index(key); 0 stands for the ValueError of a missing key
level_index(key) ==
    IF \E k \in 1..Len(sd_levels) : sd_levels[k][1] = key
    THEN CHOOSE k \in 1..Len(sd_levels) :
            sd_levels[k][1] = key /\ \A m \in 1..(k - 1) : sd_levels[m][1] # key
    ELSE 0

-----------------------------------------------------------------------------
(* _validate_unit_code *)

\* the syntax checks as one if/elif chain: only the first broken rule is named
code_syntax_errors_first_only(unit_code) ==
    IF unit_code = NoneText THEN <<"Enhedsnummer ikke angivet">>
    ELSE IF Len(unit_code) < MinCodeLen THEN <<"Enhedsnummer for kort">>
    ELSE IF Len(unit_code) > MaxCodeLen THEN <<"Enhedsnummer for langt">>
    ELSE IF ~isalnum(unit_code) THEN <<"Ugyldigt tegn i enhedsnummer">>
    ELSE IF upper(unit_code) # unit_code THEN <<"Enhedsnummer skal vaere store bogstaver">>
    ELSE <<>>

\* the syntax checks of _validate_unit_code, in the order the code appends them
code_syntax_errors(unit_code) ==
    IF unit_code = NoneText
    THEN <<"Enhedsnummer ikke angivet">>
    ELSE (IF Len(unit_code) < MinCodeLen THEN <<"Enhedsnummer for kort">>
          ELSE IF Len(unit_code) > MaxCodeLen THEN <<"Enhedsnummer for langt">>
          ELSE <<>>)
         \o (IF ~isalnum(unit_code) THEN <<"Ugyldigt tegn i enhedsnummer">> ELSE <<>>)
         \o (IF upper(unit_code) # unit_code
             THEN <<"Enhedsnummer skal vaere store bogstaver">> ELSE <<>>)

\* whether _validate_unit_code reads the registry for a unit with this code
code_lookup_made(unit_code, can_exist) ==
    code_syntax_errors(unit_code) = <<>> /\ ~can_exist

\* _validate_unit_code that does not look at what the duplicate lookup found
validate_unit_code_any_answer(unit_code, can_exist, department) ==
    code_syntax_errors(unit_code)

\* _validate_unit_code's return value; department is the answer of the
\* duplicate lookup ("none" or "one"), read only when code_lookup_made
validate_unit_code(unit_code, can_exist, department) ==
    IF code_lookup_made(unit_code, can_exist) /\ department # "none"
    THEN code_syntax_errors(unit_code) \o <<"Enhedsnummer er i brug">>
    ELSE code_syntax_errors(unit_code)

-----------------------------------------------------------------------------
(* Addresses: _get_dar_address, _grouped_addresses, _mo_to_sd_address,     *)
(* _payload_edit                                                           *)

Label1 == <<"T", " ", "4", ",", " ", "2", " ", "B">>
LabelShort == <<"2", " ", "B">>
Label2 == <<"S", ",", " ", "9", " ", "K">>

\* the endpoints of the address service, in the order of the for loop
Endpoints == <<"adresser", "adgangsadresser", "historik/adresser", "historik/adgangsadresser">>

\* what one endpoint answers: a failing request (requests.get, r.json or
\* r.raise_for_status raising), or the labels of the address objects it returns
NoObjs == [status |-> "ok", objs |-> <<>>]
RequestError == [status |-> "error", objs |-> <<>>]
Objs(labels) == [status |-> "ok", objs |-> labels]

\* the lookup giving up at the first endpoint without a result
get_dar_address_loop_no_fallback(answers, k, queried) ==
    IF answers[k].status = "error"
    THEN [raised |-> "Fejlende opslag i DAR", label |-> <<>>,
          queried |-> Append(queried, Endpoints[k])]
    ELSE IF answers[k].objs # <<>>
    THEN [raised |-> "", label |-> answers[k].objs[Len(answers[k].objs)],
          queried |-> Append(queried, Endpoints[k])]
    ELSE [raised |-> "Addresse ikke fundet i DAR", label |-> <<>>,
          queried |-> Append(queried, Endpoints[k])]

\* the for loop of _get_dar_address from its k-th endpoint on, answers[k] being
\* what that endpoint answers: [raised, label, queried], label the "betegnelse"
\* of addrobjs.pop() and queried the endpoints asked, in order
RECURSIVE get_dar_address_loop(_, _, _)
get_dar_address_loop(answers, k, queried) ==
    IF k > Len(Endpoints)
    THEN [raised |-> "Addresse ikke fundet i DAR", label |-> <<>>, queried |-> queried]
    ELSE IF answers[k].status = "error"
    THEN [raised |-> "Fejlende opslag i DAR", label |-> <<>>,
          queried |-> Append(queried, Endpoints[k])]
    ELSE IF answers[k].objs # <<>>
    THEN [raised |-> "", label |-> answers[k].objs[Len(answers[k].objs)],
          queried |-> Append(queried, Endpoints[k])]
    ELSE get_dar_address_loop(answers, k + 1, Append(queried, Endpoints[k]))

\* what the endpoints of the address service hold for an address id
dawa(addrid) ==
    CASE addrid = "dar-1" -> <<Objs(<<Label1>>), NoObjs, NoObjs, NoObjs>>
      [] addrid = "dar-short" -> <<NoObjs, Objs(<<LabelShort>>), NoObjs, NoObjs>>
      [] addrid = "dar-2" -> <<NoObjs, NoObjs, Objs(<<Label2>>), NoObjs>>
      [] OTHER -> <<NoObjs, NoObjs, NoObjs, NoObjs>>

\* _get_dar_address(addrid): the label of the first endpoint with a result, or
\* the not-found error after all four
get_dar_address(addrid) == get_dar_address_loop(dawa(addrid), 1, <<>>)

\* the selected records with the latest in front
RECURSIVE Filter_latest_first(_, _, _)
Filter_latest_first(details, field, wanted) ==
    IF details = <<>> THEN <<>>
    ELSE Filter_latest_first(Tail(details), field, wanted)
         \o (IF Head(details)[field] = wanted THEN <<Head(details)>> ELSE <<>>)

\* the records of details with the given scope / with the given user_key
RECURSIVE Filter(_, _, _)
Filter(details, field, wanted) ==
    IF details = <<>> THEN <<>>
    ELSE (IF Head(details)[field] = wanted THEN <<Head(details)>> ELSE <<>>)
         \o Filter(Tail(details), field, wanted)

\* _grouped_addresses: [raised, scoped, keyed]; scoped and keyed are functions
\* whose domains are the scopes / user keys that occur in details
grouped_addresses(details) ==
    LET idx == 1..Len(details)
        failing == {k \in idx : details[k].scope = "DAR"
                                /\ get_dar_address(details[k].value).raised # ""}
        first == CHOOSE k \in failing : \A m \in failing : k <= m
        scopes == {details[k].scope : k \in idx}
        keys == {details[k].user_key : k \in idx}
        value(d) == IF d.scope = "DAR" THEN get_dar_address(d.value).label ELSE d.value
        group(field, wanted, resolve) ==
            LET sel == Filter(details, field, wanted)
            IN [k \in 1..Len(sel) |-> IF resolve THEN value(sel[k]) ELSE sel[k].value]
    IN IF failing # {}
       THEN [raised |-> get_dar_address(details[first].value).raised,
             scoped |-> <<>>, keyed |-> <<>>]
       ELSE [raised |-> "",
             scoped |-> [s \in scopes |-> group("scope", s, TRUE)],
             keyed |-> [key \in keys |-> group("user_key", key, FALSE)]]

\* index of the last occurrence of sep in s, 0 when there is none
LastIndex(s, sep) ==
    LET hits == {k \in 1..Len(s) : s[k] = sep}
    IN IF hits = {} THEN 0 ELSE CHOOSE k \in hits : \A m \in hits : m <= k

\* str.rsplit(sep, maxsplit)
RECURSIVE rsplit(_, _, _)
rsplit(s, sep, maxsplit) ==
    IF maxsplit = 0 \/ LastIndex(s, sep) = 0
    THEN <<s>>
    ELSE LET k == LastIndex(s, sep)
         IN rsplit(SubSeq(s, 1, k - 1), sep, maxsplit - 1) \o <<SubSeq(s, k + 1, Len(s))>>

\* str.strip
RECURSIVE strip(_)
strip(s) ==
    IF s # <<>> /\ Head(s) = " " THEN strip(Tail(s))
    ELSE IF s # <<>> /\ s[Len(s)] = " " THEN strip(SubSeq(s, 1, Len(s) - 1))
    ELSE s

\* _mo_to_sd_address leaving the street's trailing comma in place
mo_to_sd_address_with_comma(address) ==
    IF address = NoneText
    THEN [raised |-> "", adresse |-> <<>>]
    ELSE LET parts == rsplit(address, " ", MaxSplit)
         IN IF Len(parts) # MaxSplit + 1
            THEN [raised |-> "ValueError", adresse |-> <<>>]
            ELSE [raised |-> "",
                  adresse |-> <<strip(parts[1]), strip(parts[2]), strip(parts[3])>>]

\* _mo_to_sd_address: [raised, adresse]; adresse is <<>> for None and otherwise
\* <<AdresseNavn, PostKodeIdentifikator, ByNavn>>
mo_to_sd_address(address) ==
    IF address = NoneText
    THEN [raised |-> "", adresse |-> <<>>]
    ELSE LET parts == rsplit(address, " ", MaxSplit)
         IN IF Len(parts) # MaxSplit + 1
            THEN [raised |-> "ValueError", adresse |-> <<>>]
            ELSE LET street == IF endswith(parts[1], ",")
                               THEN SubSeq(parts[1], 1, Len(parts[1]) - 1)
                               ELSE parts[1]
                 IN [raised |-> "",
                     adresse |-> <<strip(street), strip(parts[2]), strip(parts[3])>>]

\* d.get(key, [None])[0]
first_or(d, key, none) == IF key \in DOMAIN d THEN d[key][1] ELSE none

\* the ordering test left out
pnumber_before_address_allowed(scoped) == FALSE

\* if "PNUMBER" in scoped and "DAR" not in scoped
pnumber_before_address(scoped) ==
    "PNUMBER" \in DOMAIN scoped /\ "DAR" \notin DOMAIN scoped

\* _payload_edit: [raised, payload]
payload_edit(unit_uuid, unit_, addresses) ==
    LET g == grouped_addresses(addresses)
        nopayload == [unit_name |-> NoneText, unit_code |-> NoneText, unit_uuid |-> None,
                      phone |-> None, pnummer |-> None, adresse |-> <<>>,
                      integration_values |-> [formaalskode |-> None, skolekode |-> None]]
    IN IF g.raised # ""
       THEN [raised |-> g.raised, payload |-> nopayload]
       ELSE IF pnumber_before_address(g.scoped)
       THEN [raised |-> "Opret postaddresse foer pnummer", payload |-> nopayload]
       ELSE LET a == mo_to_sd_address(first_or(g.scoped, "DAR", NoneText))
            IN IF a.raised # ""
               THEN [raised |-> a.raised, payload |-> nopayload]
               ELSE [raised |-> "",
                     payload |-> [unit_name |-> unit_.name,
                                  unit_code |-> unit_.user_key,
                                  unit_uuid |-> unit_uuid,
                                  phone |-> first_or(g.scoped, "PHONE", None),
                                  pnummer |-> first_or(g.scoped, "PNUMBER", None),
                                  adresse |-> a.adresse,
                                  integration_values |->
                                      [formaalskode |-> first_or(g.keyed, "Formaalskode", None),
                                       skolekode |-> first_or(g.keyed, "Skolekode", None)]]]

-----------------------------------------------------------------------------
(* _payload_create *)

\* _payload_create resolving the parent's level before the unit's
payload_create_parent_first(unit_uuid, unit_, parent) ==
    LET unit_level == level_by_uuid_get(unit_.org_unit_level)
        parent_level == level_by_uuid_get(parent.org_unit_level)
        nopayload == [unit_name |-> NoneText,
                      parent |-> [unit_code |-> NoneText, uuid |-> None, level |-> None],
                      unit_code |-> NoneText, unit_level |-> None, unit_uuid |-> None]
    IN IF parent_level = None
       THEN [raised |-> "Foraeldreenhedens enhedstype er ikke et kendt NY-niveau",
             payload |-> nopayload]
       ELSE IF unit_level = None
       THEN [raised |-> "Enhedstype er ikke et kendt NY-niveau", payload |-> nopayload]
       ELSE [raised |-> "",
             payload |-> [unit_name |-> unit_.name,
                          parent |-> [unit_code |-> parent.user_key,
                                      uuid |-> parent.uuid,
                                      level |-> parent_level],
                          unit_code |-> unit_.user_key,
                          unit_level |-> unit_level,
                          unit_uuid |-> unit_uuid]]

\* _payload_create refusing a parent that does not rank above the unit
payload_create_ranked(unit_uuid, unit_, parent) ==
    LET unit_level == level_by_uuid_get(unit_.org_unit_level)
        parent_level == level_by_uuid_get(parent.org_unit_level)
        nopayload == [unit_name |-> NoneText,
                      parent |-> [unit_code |-> NoneText, uuid |-> None, level |-> None],
                      unit_code |-> NoneText, unit_level |-> None, unit_uuid |-> None]
    IN IF unit_level = None
       THEN [raised |-> "Enhedstype er ikke et kendt NY-niveau", payload |-> nopayload]
       ELSE IF parent_level = None
       THEN [raised |-> "Foraeldreenhedens enhedstype er ikke et kendt NY-niveau",
             payload |-> nopayload]
       ELSE IF ~(level_index(unit_level) > level_index(parent_level))
       THEN [raised |-> "Enhedstypen passer ikke til foraeldreenheden", payload |-> nopayload]
       ELSE [raised |-> "",
             payload |-> [unit_name |-> unit_.name,
                          parent |-> [unit_code |-> parent.user_key,
                                      uuid |-> parent.uuid,
                                      level |-> parent_level],
                          unit_code |-> unit_.user_key,
                          unit_level |-> unit_level,
                          unit_uuid |-> unit_uuid]]

\* _payload_create: [raised, payload]
payload_create(unit_uuid, unit_, parent) ==
    LET unit_level == level_by_uuid_get(unit_.org_unit_level)
        parent_level == level_by_uuid_get(parent.org_unit_level)
        nopayload == [unit_name |-> NoneText,
                      parent |-> [unit_code |-> NoneText, uuid |-> None, level |-> None],
                      unit_code |-> NoneText, unit_level |-> None, unit_uuid |-> None]
    IN IF unit_level = None
       THEN [raised |-> "Enhedstype er ikke et kendt NY-niveau", payload |-> nopayload]
       ELSE IF parent_level = None
       THEN [raised |-> "Foraeldreenhedens enhedstype er ikke et kendt NY-niveau",
             payload |-> nopayload]
       ELSE [raised |-> "",
             payload |-> [unit_name |-> unit_.name,
                          parent |-> [unit_code |-> parent.user_key,
                                      uuid |-> parent.uuid,
                                      level |-> parent_level],
                          unit_code |-> unit_.user_key,
                          unit_level |-> unit_level,
                          unit_uuid |-> unit_uuid]]

-----------------------------------------------------------------------------
(* The registry's answer for the unit, and _check_department *)

RefName == <<"A", "B">>
RefCode == <<"A", "B">>
RefAdresse == <<<<"T", " ", "4">>, <<"2">>, <<"B">>>>

\* the unit as the registry holds it once every requested change is applied
RefDept ==
    [ActivationDate |-> FromDate,
     DepartmentName |-> RefName,
     DepartmentIdentifier |-> RefCode,
     DepartmentUUIDIdentifier |-> UnitUuid,
     DepartmentLevelIdentifier |-> "Afdelings-niveau",
     TelephoneNumberIdentifier |-> "p1",
     ProductionUnitIdentifier |-> "n1",
     StandardAddressIdentifier |-> RefAdresse[1],
     PostalCode |-> RefAdresse[2],
     DistrictName |-> RefAdresse[3],
     Parent |-> ParentUuid]

ObservedNames == {<<>>, <<"A">>, <<"A", "B">>, <<"A", "B", "C">>, <<"B">>, NoneText}

\* the departments that differ from those of S in at most one more field
Vary(S) ==
    S \cup {[d EXCEPT !.ActivationDate = OldDate] : d \in S}
      \cup {[d EXCEPT !.DepartmentName = v] : d \in S, v \in ObservedNames}
      \cup {[d EXCEPT !.DepartmentIdentifier = <<"C", "D">>] : d \in S}
      \cup {[d EXCEPT !.DepartmentUUIDIdentifier = OtherUuid] : d \in S}
      \cup {[d EXCEPT !.DepartmentLevelIdentifier = "NY1-niveau"] : d \in S}
      \cup {[d EXCEPT !.TelephoneNumberIdentifier = v] : d \in S, v \in {"p2", None}}
      \cup {[d EXCEPT !.ProductionUnitIdentifier = v] : d \in S, v \in {"n2", None}}
      \cup {[d EXCEPT !.StandardAddressIdentifier = <<"X">>] : d \in S}
      \cup {[d EXCEPT !.PostalCode = <<"9">>] : d \in S}
      \cup {[d EXCEPT !.DistrictName = <<"K">>] : d \in S}
      \cup {[d EXCEPT !.Parent = v] : d \in S, v \in {OtherUuid, None}}

\* what the registry may hold for the unit: nothing, several units, or one
Departments == Vary({RefDept})
RegistryAnswers ==
    {[kind |-> "none", dept |-> RefDept], [kind |-> "list", dept |-> RefDept]}
    \cup {[kind |-> "one", dept |-> d] : d \in Departments}

\* compare() that reports a field only while no earlier field has failed
compare_until_first(actual, expected, none, error, errs) ==
    IF errs = <<>> /\ expected # none /\ actual # expected THEN Append(errs, error) ELSE errs

\* compare() without its "expected is not None" guard
compare_unguarded(actual, expected, none, error, errs) ==
    IF actual # expected THEN Append(errs, error) ELSE errs

\* compare() of _check_department with the default comparator operator.ne
compare(actual, expected, none, error, errs) ==
    IF expected # none /\ actual # expected THEN Append(errs, error) ELSE errs

\* compare() for the name with the default comparator in place of startswith
compare_name_exact(actual, expected, error, errs) ==
    IF expected # NoneText /\ actual # expected THEN Append(errs, error) ELSE errs

\* compare() with the name comparator: not expected.startswith(actual)
compare_name(actual, expected, error, errs) ==
    IF expected # NoneText /\ ~startswith(expected, actual) THEN Append(errs, error) ELSE errs

\* the activation date compared whatever the operation
checks_activation_always(oper) == TRUE

\* "if operation in ("ret", "import")": whether the activation date is compared
checks_activation(oper) == oper \in {"ret", "import"}

\* _check_department from the department read to the postal fields: the errors
\* collected so far; raised is "TypeError" when startswith is handed a missing name
check_department(department, args, oper, from_date_) ==
    LET e1 == IF checks_activation(oper)
              THEN compare(department.ActivationDate, from_date_, NoDate, "Activation Date", <<>>)
              ELSE <<>>
        e2 == compare_name(department.DepartmentName, args.unit_name, "Name", e1)
        e3 == compare(department.DepartmentIdentifier, args.unit_code, NoneText, "Unit code", e2)
        e4 == compare(department.DepartmentUUIDIdentifier, args.unit_uuid, None, "UUID", e3)
        e5 == compare(department.DepartmentLevelIdentifier, args.unit_level, None, "Level", e4)
        e6 == compare(department.TelephoneNumberIdentifier, args.phone, None, "Phone", e5)
        e7 == compare(department.ProductionUnitIdentifier, args.pnummer, None, "Pnummer", e6)
        e8 == IF args.adresse # <<>>
              THEN compare(department.DistrictName, args.adresse[3], NoneText, "Postal Area",
                     compare(department.PostalCode, args.adresse[2], NoneText, "Zip code",
                       compare(department.StandardAddressIdentifier, args.adresse[1], NoneText,
                               "Address", e7)))
              ELSE e7
    IN IF args.unit_name # NoneText /\ department.DepartmentName = NoneText
       THEN [raised |-> "TypeError", errors |-> <<>>]
       ELSE [raised |-> "", errors |-> e8]

\* _check_department, the parent part: parent_info is what _read_parent returned
\* (the parent's uuid, or None when the registry gave no DepartmentParent)
check_parent(parent_info, args, errs) ==
    IF parent_info # None
    THEN compare(parent_info, args.parent[1].uuid, None, "Parent", errs)
    ELSE Append(errs, "Parent")

\* the keyword arguments of _check_department, absent ones at their default None
check_kwargs(p) ==
    [unit_name |-> p.unit_name,
     unit_code |-> p.unit_code,
     unit_uuid |-> p.unit_uuid,
     unit_level |-> IF "unit_level" \in DOMAIN p THEN p.unit_level ELSE None,
     phone |-> IF "phone" \in DOMAIN p THEN p.phone ELSE None,
     pnummer |-> IF "pnummer" \in DOMAIN p THEN p.pnummer ELSE None,
     adresse |-> IF "adresse" \in DOMAIN p THEN p.adresse ELSE <<>>,
     parent |-> IF "parent" \in DOMAIN p THEN <<p.parent>> ELSE <<>>]

-----------------------------------------------------------------------------
(* Inputs *)

Operations == {"rename_unit", "move_unit", "create_unit", "create_address", "edit_address"}

\* unit codes (user_key) the directory or the caller may supply
Codes == {NoneText, RefCode, <<"a">>, <<"A", "-", "B", "C", "D">>}

\* unit codes the directory holds for the unit an address is added to
DirCodes == {RefCode, <<"a">>}

\* org_unit_level uuids the directory or the caller may supply
UnitLevelUuids == {"uuid-afd", "uuid-ny1", UnknownLevelUuid}
ParentLevelUuids == {"uuid-ny1", UnknownLevelUuid}

AddressRecords ==
    {[scope |-> "DAR", user_key |-> "AdresseLokation", value |-> v] :
        v \in {"dar-1", "dar-short", "dar-none"}}
    \cup {[scope |-> "PHONE", user_key |-> "Telefon", value |-> v] : v \in {"p1", "p2"}}
    \cup {[scope |-> "PNUMBER", user_key |-> "Pnummer", value |-> "n1"],
          [scope |-> "TEXT", user_key |-> "Formaalskode", value |-> "f1"]}

\* the address lists of at most MaxAddrs records
AddressLists == UNION {[1..n -> AddressRecords] : n \in 0..MaxAddrs}

\* the address records a new unit's details are drawn from, and the details
\* of at most MaxAddrs records
DetailRecords == {r \in AddressRecords : r.value \in {"dar-1", "dar-short", "p1", "n1"}}
DetailLists == UNION {[1..n -> DetailRecords] : n \in 0..MaxAddrs}

\* what the registry holds for the unit before the operation starts
InitialAnswers ==
    {[kind |-> "none", dept |-> RefDept],
     [kind |-> "list", dept |-> RefDept],
     [kind |-> "one", dept |-> RefDept],
     [kind |-> "one", dept |-> [RefDept EXCEPT !.DepartmentName = <<"B">>]]}

\* strftime("%Y-%m-%dT00:00:00.00")
strftime(d) == <<d, "T00:00:00.00">>

NoUnit == [kind |-> "none", dept |-> RefDept]
NoUnitData == [name |-> NoneText, user_key |-> NoneText, org_unit_level |-> None,
               details |-> <<>>]
NoPayload == [unit_name |-> NoneText,
              parent |-> [unit_code |-> NoneText, uuid |-> None, level |-> None],
              unit_code |-> NoneText, unit_level |-> None, unit_uuid |-> None]
Running == [kind |-> "", msg |-> "", detail |-> <<>>]

NoArgs == [unit_name |-> NoneText, unit_code |-> NoneText, unit_uuid |-> None,
           unit_level |-> None, phone |-> None, pnummer |-> None, adresse |-> <<>>,
           parent |-> <<>>]

NewNames == {RefName, <<"A", "B", "C">>}
ParentCode == <<"P", "A">>

\* answers of the registry to the parent lookup of _create_unit / _move_unit
ParentAnswers ==
    {[kind |-> "none", level |-> None], [kind |-> "list", level |-> None]}
    \cup {[kind |-> "one", level |-> l] : l \in LevelKeys \cup {UnknownLevelKey}}

-----------------------------------------------------------------------------
(* Documents: the arguments the renderers hand to sd_mox_payloads *)

\* _create_xml_ret(**payload)
create_xml_ret(p, virk) ==
    [kind |-> "ret", ObjektID |-> p.unit_uuid, unit_name |-> p.unit_name,
     pnummer |-> p.pnummer, phone |-> p.phone, adresse |-> p.adresse,
     funktionskode |-> p.integration_values.formaalskode,
     skolekode |-> p.integration_values.skolekode, virkning |-> virk]

\* the keyword arguments _create_unit hands to _create_xml_import
import_kwargs(p) ==
    [unit_name |-> p.unit_name, unit_uuid |-> p.unit_uuid, unit_code |-> p.unit_code,
     unit_level |-> p.unit_level, parent_unit_uuid |-> p.parent.uuid]

\* the keyword arguments _move_unit hands to _create_xml_flyt
flyt_kwargs(p) ==
    [unit_name |-> p.unit_name, unit_uuid |-> p.unit_uuid, unit_code |-> p.unit_code,
     unit_level |-> p.unit_level, parent |-> p.parent.uuid,
     parent_unit_uuid |-> p.parent.uuid]

\* the update done on one shared dictionary: self._times takes the keyword
\* arguments as well
payload_update_in_place(kwargs, t) == [payload |-> t @@ kwargs, times |-> t @@ kwargs]

\* payload.update(self._times): the keyword arguments take the keys of
\* self._times; self._times is only read
payload_update(kwargs, t) == [payload |-> t @@ kwargs, times |-> t]

\* _create_xml_import(**payload): what import_xml_dict is handed
create_xml_import(p, t) ==
    [kind |-> "import"] @@ payload_update(import_kwargs(p), t).payload

\* _create_xml_flyt(**payload): what flyt_xml_dict is handed
create_xml_flyt(p, t) ==
    [kind |-> "flyt"] @@ payload_update(flyt_kwargs(p), t).payload

-----------------------------------------------------------------------------
(* State *)

catalog == <<sd_levels, level_by_uuid>>
settled == <<amqp_check_retries, virkning, catalog, from_date, to_date>>
engine == <<settled, times>>
broker == <<channel, callback_queue, connections, published, pending>>
checkv == <<operation, check_args, i, unit, errors>>
helper == <<call, ret, other>>

\* the locals of an invocation that has not begun, and the registry not holding
\* its unit
IdleFrame ==
    [pc |-> "idle", op |-> "", dry_run |-> FALSE, at |-> NoDate, unit_data |-> NoUnitData,
     payload |-> NoPayload, operation |-> "", check_args |-> NoArgs, i |-> 0,
     unit |-> NoUnit, errors |-> <<>>, log |-> <<>>, result |-> Running, sdUnit |-> NoUnit]

\* no helper is invoked on its own
NoCall == [fn |-> "", args |-> <<>>]

Init ==
    /\ pc = "idle"
    /\ op = ""
    /\ dry_run = FALSE
    /\ at = NoDate
    /\ reads = {}
    /\ amqp_check_retries \in 0..MaxRetries
    /\ unit_data = NoUnitData
    /\ payload = NoPayload
    /\ operation = ""
    /\ check_args = NoArgs
    /\ i = 0
    /\ unit = NoUnit
    /\ errors = <<>>
    /\ channel = 0
    /\ callback_queue = 0
    /\ connections = 0
    /\ published = <<>>
    /\ pending = 0
    /\ sdUnit \in InitialAnswers
    /\ virkning = FromDate
    /\ times = [virk_from |-> strftime(FromDate), virk_to |-> strftime(VirkTo)]
    /\ sd_levels = read_ou_levelkeys
    /\ level_by_uuid = inverse(read_ou_levelkeys)
    /\ from_date = FromDate
    /\ to_date = NoDate
    /\ log = <<>>
    /\ result = Running
    /\ call = NoCall
    /\ other = IdleFrame
    /\ ret = <<>>

\* the date taken from the "at" of the running operation
read_date_at == at

\* from_date = self.virkning["sd:FraTidspunkt"]["sd:TidsstempelDatoTid"][0:10]:
\* the date _read_department and _read_parent ask the registry about, and the
\* activation date _check_department expects
read_date == virkning

\* _read_department taking several departments as if they were one
is_list_never(kind) == FALSE

\* _read_department: "if isinstance(department_info, list): raise
\* SDMoxError("Afdeling ikke unik ...")"
is_list(kind) == kind = "list"

\* raise: the operation ends with an exception
Raise(type, msg, detail) ==
    /\ pc' = "done"
    /\ result' = [kind |-> type, msg |-> msg, detail |-> detail]

\* raise SDMoxError(msg), or re-raise the Python error a helper ended with
RaiseOf(raised) ==
    IF raised \in {"ValueError", "TypeError"}
    THEN Raise(raised, "", <<>>)
    ELSE Raise("SDMoxError", raised, <<>>)

\* _call that connects only while the engine holds no channel, and publishes on
\* self.channel with self.callback_queue as they are
calls_on_kept_channel(docs) ==
    LET fresh == channel = 0 /\ docs # <<>>
        ch == IF fresh THEN connections + 1 ELSE channel
        queue == IF fresh THEN connections + 1 ELSE callback_queue
    IN /\ connections' = IF fresh THEN connections + 1 ELSE connections
       /\ channel' = ch
       /\ callback_queue' = queue
       /\ published' = published \o [k \in 1..Len(docs) |->
                                        [body |-> docs[k], channel |-> ch, reply_to |-> queue]]
       /\ pending' = pending + Len(docs)

\* _call once per document of docs, in order: each time _amqp_connect (a new
\* connection, channel and reply queue, kept in self.channel and
\* self.callback_queue) and then basic_publish on self.channel
calls(docs) ==
    /\ connections' = connections + Len(docs)
    /\ channel' = IF docs = <<>> THEN channel ELSE connections + Len(docs)
    /\ callback_queue' = IF docs = <<>> THEN callback_queue ELSE connections + Len(docs)
    /\ published' = published \o [k \in 1..Len(docs) |->
                                     [body |-> docs[k], channel |-> connections + k,
                                      reply_to |-> connections + k]]
    /\ pending' = pending + Len(docs)

\* submission that does not look at test_run
submit_always(test_run, xml) == <<xml>>

\* _create_unit / _edit_unit / _move_unit: "if not test_run: self._call(xml)"
submit(test_run, xml) == IF test_run THEN <<>> ELSE <<xml>>

\* the entry of _check_unit: unit = None, errors = None (<<>>), the loop not begun
start_check(oper, args) ==
    /\ operation' = oper
    /\ check_args' = args
    /\ i' = 0
    /\ unit' = NoUnit
    /\ errors' = <<>>
    /\ pc' = "check_loop"

\* _update_ou submitting its edit ahead of the documents of the same stretch
update_ou_edit_first(unit_uuid, unit_, addresses, dry, before, steps) ==
    LET pe == payload_edit(unit_uuid, unit_, addresses)
    IN IF pe.raised # ""
       THEN /\ RaiseOf(pe.raised)
            /\ calls(before)
            /\ log' = log \o steps \o <<"_payload_edit">>
            /\ UNCHANGED checkv
       ELSE IF virkning = NoDate
       THEN /\ Raise("AttributeError", "virkning", <<>>)
            /\ calls(before)
            /\ log' = log \o steps \o <<"_payload_edit">>
            /\ UNCHANGED checkv
       ELSE /\ calls(submit(dry, create_xml_ret(pe.payload, virkning)) \o before)
            /\ log' = log \o steps \o <<"_payload_edit", "_create_xml_ret">>
                          \o (IF dry THEN <<>> ELSE <<"_call">>)
            /\ start_check("ret", check_kwargs(pe.payload))
            /\ UNCHANGED result

\* _update_ou up to its first await: _payload_edit, _edit_unit, entry of
\* _check_unit; before are the documents and steps of the same synchronous stretch
update_ou(unit_uuid, unit_, addresses, dry, before, steps) ==
    LET pe == payload_edit(unit_uuid, unit_, addresses)
    IN IF pe.raised # ""
       THEN /\ RaiseOf(pe.raised)
            /\ calls(before)
            /\ log' = log \o steps \o <<"_payload_edit">>
            /\ UNCHANGED checkv
       ELSE IF virkning = NoDate
       THEN /\ Raise("AttributeError", "virkning", <<>>)
            /\ calls(before)
            /\ log' = log \o steps \o <<"_payload_edit">>
            /\ UNCHANGED checkv
       ELSE /\ calls(before \o submit(dry, create_xml_ret(pe.payload, virkning)))
            /\ log' = log \o steps \o <<"_payload_edit", "_create_xml_ret">>
                          \o (IF dry THEN <<>> ELSE <<"_call">>)
            /\ start_check("ret", check_kwargs(pe.payload))
            /\ UNCHANGED result

-----------------------------------------------------------------------------
(* The public operations, each up to its first await on the registry *)

\* rename_unit: read_ou, _validate_unit_code(can_exist=True), read_ou_address, _update_ou
rename_unit_of(ats, dries, names, user_keys, address_lists) ==
    /\ pc = "idle"
    /\ \E at_ \in ats, dry \in dries, new_unit_name \in names, code \in user_keys :
          LET unit_ == [name |-> new_unit_name, user_key |-> code]
              code_errors == validate_unit_code(code, TRUE, "none")
          IN /\ op' = "rename_unit"
             /\ dry_run' = dry
             /\ at' = at_
             /\ IF code_errors # <<>>
                THEN /\ Raise("SDMoxError", "code_errors", code_errors)
                     /\ log' = <<"_validate_unit_code">>
                     /\ UNCHANGED <<broker, checkv>>
                ELSE \E addresses \in address_lists :
                        update_ou(UnitUuid, unit_, addresses, dry, <<>>,
                                  <<"_validate_unit_code">>)
    /\ UNCHANGED <<engine, helper, unit_data, payload, sdUnit, reads>>

rename_unit == rename_unit_of({FromDate}, BOOLEAN, NewNames, Codes, AddressLists)

\* move_unit: read_ou, _validate_unit_code(can_exist=True), read_ou of the new
\* parent, _payload_create, and _move_unit up to its read of the parent
move_unit_of(ats, dries, user_keys, unit_levels, parent_levels) ==
    /\ pc = "idle"
    /\ \E at_ \in ats, dry \in dries, code \in user_keys, ul \in unit_levels,
          pl \in parent_levels :
          LET unit_ == [name |-> RefName, user_key |-> code, org_unit_level |-> ul]
              new_parent_unit == [user_key |-> ParentCode, uuid |-> ParentUuid,
                                  org_unit_level |-> pl]
              code_errors == validate_unit_code(code, TRUE, "none")
              p == payload_create(UnitUuid, unit_, new_parent_unit)
          IN /\ op' = "move_unit"
             /\ dry_run' = dry
             /\ at' = at_
             /\ IF code_errors # <<>>
                THEN /\ Raise("SDMoxError", "code_errors", code_errors)
                     /\ log' = <<"_validate_unit_code">>
                     /\ UNCHANGED payload
                ELSE IF p.raised # ""
                THEN /\ RaiseOf(p.raised)
                     /\ log' = <<"_validate_unit_code", "_payload_create">>
                     /\ UNCHANGED payload
                ELSE IF validate_unit_code(p.payload.unit_code, TRUE, "none") # <<>>
                THEN /\ Raise("SDMoxError", "code_errors",
                              validate_unit_code(p.payload.unit_code, TRUE, "none"))
                     /\ log' = <<"_validate_unit_code", "_payload_create",
                                 "_validate_unit_code">>
                     /\ UNCHANGED payload
                ELSE IF virkning = NoDate
                THEN /\ Raise("AttributeError", "virkning", <<>>)
                     /\ log' = <<"_validate_unit_code", "_payload_create",
                                 "_validate_unit_code">>
                     /\ UNCHANGED payload
                ELSE /\ payload' = p.payload
                     /\ pc' = "move_parent"
                     /\ log' = <<"_validate_unit_code", "_payload_create",
                                 "_validate_unit_code">>
                     /\ UNCHANGED result
    /\ UNCHANGED <<engine, helper, broker, checkv, unit_data, sdUnit, reads>>

move_unit == move_unit_of({FromDate}, BOOLEAN, Codes, UnitLevelUuids, ParentLevelUuids)

\* the log entry of what the registry answered to the parent lookup
\* _read_department(unit_code=parent["unit_code"], unit_level=parent["level"])
parent_department(answer) ==
    CASE answer.kind = "none" -> "parent_department: None"
      [] answer.kind = "list" -> "parent_department: list"
      [] answer.level = "NY2-niveau" -> "parent_department: NY2-niveau"
      [] answer.level = "NY1-niveau" -> "parent_department: NY1-niveau"
      [] answer.level = "Afdelings-niveau" -> "parent_department: Afdelings-niveau"
      [] OTHER -> "parent_department: Ukendt-niveau"

\* the level test letting a parent of the unit's own level through
level_fits_or_equal(unit_index, parent_index) == unit_index >= parent_index

\* "if not unit_index > parent_index: raise": whether the unit may hang under the parent
level_fits(unit_index, parent_index) == unit_index > parent_index

\* move_unit verifying with the name it submitted
move_check_payload_with_name(p) == p

\* move_unit: "when moving, do not check against name": payload["unit_name"] = None
move_check_payload(p) == [p EXCEPT !.unit_name = NoneText]

\* _move_unit from the registry's answer on the parent: existence, level ranks,
\* _create_xml_flyt, submission; then move_unit drops the name and enters _check_unit
move_parent ==
    /\ pc = "move_parent"
    /\ reads' = reads \cup {read_date}
    /\ \E answer \in ParentAnswers :
          LET unit_index == level_index(payload.unit_level)
              parent_index == level_index(answer.level)
          IN IF is_list(answer.kind)
             THEN /\ Raise("SDMoxError", "Afdeling ikke unik", <<>>)
                  /\ log' = log \o <<"_read_department", parent_department(answer)>>
                  /\ UNCHANGED <<broker, checkv, payload, times>>
             ELSE IF answer.kind = "none"
             THEN /\ Raise("SDMoxError", "Foraeldrenheden findes ikke", <<>>)
                  /\ log' = log \o <<"_read_department", parent_department(answer)>>
                  /\ UNCHANGED <<broker, checkv, payload, times>>
             ELSE IF parent_index = 0
             THEN /\ Raise("ValueError", "", <<>>)
                  /\ log' = log \o <<"_read_department", parent_department(answer)>>
                  /\ UNCHANGED <<broker, checkv, payload, times>>
             ELSE IF ~level_fits(unit_index, parent_index)
             THEN /\ Raise("SDMoxError", "Enhedstypen passer ikke til foraeldreenheden", <<>>)
                  /\ log' = log \o <<"_read_department", parent_department(answer),
                                      "level_check">>
                  /\ UNCHANGED <<broker, checkv, payload, times>>
             ELSE /\ calls(submit(dry_run, create_xml_flyt(payload, times)))
                  /\ times' = payload_update(flyt_kwargs(payload), times).times
                  /\ log' = log \o <<"_read_department", parent_department(answer),
                                      "level_check", "_create_xml_flyt">>
                                \o (IF dry_run THEN <<>> ELSE <<"_call">>)
                  /\ payload' = move_check_payload(payload)
                  /\ start_check("flyt", check_kwargs(payload'))
                  /\ UNCHANGED result
    /\ UNCHANGED <<settled, helper, op, dry_run, at, unit_data, sdUnit>>

\* create_unit: _payload_create, and _create_unit up to the duplicate lookup
create_unit_of(uuids, dries, user_keys, unit_levels, parent_levels, detail_lists) ==
    /\ pc = "idle"
    /\ \E unit_uuid \in uuids, dry \in dries, code \in user_keys, ul \in unit_levels,
          pl \in parent_levels :
          LET unit_ == [name |-> RefName, user_key |-> code, org_unit_level |-> ul]
              parent_data == [user_key |-> ParentCode, uuid |-> ParentUuid,
                              org_unit_level |-> pl]
              p == payload_create(unit_uuid, unit_, parent_data)
          IN /\ op' = "create_unit"
             /\ dry_run' = dry
             /\ IF p.raised # ""
                THEN /\ RaiseOf(p.raised)
                     /\ log' = <<"_payload_create">>
                     /\ UNCHANGED <<payload, unit_data>>
                ELSE IF ~code_lookup_made(code, FALSE)
                THEN /\ Raise("SDMoxError", "code_errors",
                              validate_unit_code(code, FALSE, "none"))
                     /\ log' = <<"_payload_create", "_validate_unit_code">>
                     /\ UNCHANGED <<payload, unit_data>>
                ELSE IF virkning = NoDate
                THEN /\ Raise("AttributeError", "virkning", <<>>)
                     /\ log' = <<"_payload_create", "_validate_unit_code">>
                     /\ UNCHANGED <<payload, unit_data>>
                ELSE \E details \in detail_lists :
                        /\ unit_data' = [name |-> unit_.name, user_key |-> code,
                                         org_unit_level |-> ul, details |-> details]
                        /\ payload' = p.payload
                        /\ pc' = "create_code"
                        /\ log' = <<"_payload_create", "_validate_unit_code">>
                        /\ UNCHANGED result
    /\ UNCHANGED <<engine, helper, broker, checkv, at, sdUnit, reads>>

create_unit ==
    create_unit_of({UnitUuid}, BOOLEAN, Codes, UnitLevelUuids, ParentLevelUuids, DetailLists)

\* whether the registry, holding sdUnit for the unit's uuid (and other.sdUnit
\* for the unit of the suspended invocation), can give this answer to a lookup
\* of the unit's code: it cannot say "none" while it holds a unit under that
\* very code
code_answer_possible(answer) ==
    answer = "none" =>
        \A held \in {sdUnit, other.sdUnit} :
           ~(held.kind = "one" /\ held.dept.DepartmentIdentifier = payload.unit_code)

\* the log entry of the duplicate lookup _read_department(unit_code=unit_code)
\* of _validate_unit_code, with what the registry answered
code_lookup(answer) ==
    CASE answer = "none" -> "_read_department(unit_code): none"
      [] answer = "one" -> "_read_department(unit_code): one"
      [] answer = "list" -> "_read_department(unit_code): list"

\* _validate_unit_code from the answer of the duplicate lookup
create_code ==
    /\ pc = "create_code"
    /\ reads' = reads \cup {read_date}
    /\ \E answer \in {"none", "one", "list"} :
          /\ code_answer_possible(answer)
          /\ log' = Append(log, code_lookup(answer))
          /\ IF is_list(answer)
             THEN Raise("SDMoxError", "Afdeling ikke unik", <<>>)
             ELSE IF validate_unit_code(payload.unit_code, FALSE, answer) # <<>>
             THEN Raise("SDMoxError", "code_errors",
                        validate_unit_code(payload.unit_code, FALSE, answer))
             ELSE /\ pc' = "create_parent"
                  /\ UNCHANGED result
    /\ UNCHANGED <<engine, helper, broker, checkv, op, dry_run, at, unit_data, payload, sdUnit>>

\* _create_unit from the registry's answer on the parent: existence, level
\* ranks, _create_xml_import, submission; then create_unit, without another await:
\* _update_ou for non-empty details, or at once _check_unit(operation="import")
create_parent ==
    /\ pc = "create_parent"
    /\ reads' = reads \cup {read_date}
    /\ \E answer \in ParentAnswers :
          LET unit_index == level_index(payload.unit_level)
              parent_index == level_index(answer.level)
              created == submit(dry_run, create_xml_import(payload, times))
              steps == <<"_read_department", parent_department(answer), "level_check",
                         "_create_xml_import">>
                           \o (IF dry_run THEN <<>> ELSE <<"_call">>)
          IN IF is_list(answer.kind)
             THEN /\ Raise("SDMoxError", "Afdeling ikke unik", <<>>)
                  /\ log' = log \o <<"_read_department", parent_department(answer)>>
                  /\ UNCHANGED <<broker, checkv, times>>
             ELSE IF answer.kind = "none"
             THEN /\ Raise("SDMoxError", "Foraeldrenheden findes ikke", <<>>)
                  /\ log' = log \o <<"_read_department", parent_department(answer)>>
                  /\ UNCHANGED <<broker, checkv, times>>
             ELSE IF parent_index = 0
             THEN /\ Raise("ValueError", "", <<>>)
                  /\ log' = log \o <<"_read_department", parent_department(answer)>>
                  /\ UNCHANGED <<broker, checkv, times>>
             ELSE IF ~level_fits(unit_index, parent_index)
             THEN /\ Raise("SDMoxError", "Enhedstypen passer ikke til foraeldreenheden", <<>>)
                  /\ log' = log \o <<"_read_department", parent_department(answer),
                                      "level_check">>
                  /\ UNCHANGED <<broker, checkv, times>>
             ELSE IF unit_data.details # <<>>
             THEN /\ update_ou(payload.unit_uuid, unit_data, unit_data.details, dry_run,
                               created, steps)
                  /\ times' = payload_update(import_kwargs(payload), times).times
             ELSE /\ calls(created)
                  /\ times' = payload_update(import_kwargs(payload), times).times
                  /\ log' = log \o steps
                  /\ start_check("import", check_kwargs(payload))
                  /\ UNCHANGED result
    /\ unit_data' = NoUnitData
    /\ UNCHANGED <<settled, helper, op, dry_run, at, payload, sdUnit>>

\* the new address put behind the recorded ones
new_address_last(address_data, previous_addresses) ==
    previous_addresses \o <<address_data>>

\* addresses = [address_data] + previous_addresses
new_address_first(address_data, previous_addresses) ==
    <<address_data>> \o previous_addresses

\* create_address for given directory data: the new address prepended, _update_ou
add_address(name, dry, unit_, address_data, previous_addresses) ==
    /\ op' = name
    /\ dry_run' = dry
    /\ update_ou(UnitUuid, unit_, new_address_first(address_data, previous_addresses), dry,
                 <<>>, <<>>)

\* create_address, also as called by edit_address: read_ou, read_ou_address,
\* the new address prepended, _update_ou
address_body(name, ats, dries, user_keys, records, address_lists) ==
    /\ pc = "idle"
    /\ \E at_ \in ats, dry \in dries, code \in user_keys,
          address_data \in records, previous_addresses \in address_lists :
          /\ at' = at_
          /\ add_address(name, dry, [name |-> RefName, user_key |-> code],
                         address_data, previous_addresses)
    /\ UNCHANGED <<engine, helper, unit_data, payload, sdUnit, reads>>

create_address ==
    address_body("create_address", {FromDate}, BOOLEAN, DirCodes, AddressRecords, AddressLists)

edit_address ==
    address_body("edit_address", {FromDate}, BOOLEAN, DirCodes, AddressRecords, AddressLists)

-----------------------------------------------------------------------------
(* _check_unit: the polling loop *)

\* the loop entered once more than range(amqp_check_retries) allows
check_sleep_once_more ==
    /\ pc = "check_loop"
    /\ i <= amqp_check_retries
    /\ pc' = "check_read"
    /\ log' = Append(log, "sleep")
    /\ UNCHANGED <<engine, helper, broker, checkv, op, dry_run, at, unit_data, payload, sdUnit, reads, result>>

\* one "for i in range(amqp_check_retries)" iteration begins: asyncio.sleep
check_sleep ==
    /\ pc = "check_loop"
    /\ i < amqp_check_retries
    /\ pc' = "check_read"
    /\ log' = Append(log, "sleep")
    /\ UNCHANGED <<engine, helper, broker, checkv, op, dry_run, at, unit_data, payload, sdUnit, reads, result>>

\* _check_department: _read_department and the comparisons up to the postal
\* fields.  While an expected parent is still to be read (pc = "check_parent"),
\* unit and errors hold _check_department's department and errors.  The Parent
\* field of unit.dept is no part of getDepartment's answer: it records what
\* _read_parent answered for this attempt, None until it is asked.
check_read ==
    /\ pc = "check_read"
    /\ reads' = reads \cup {read_date}
    /\ LET r == check_department(sdUnit.dept, check_args, operation, read_date)
       IN IF is_list(sdUnit.kind)
          THEN /\ Raise("SDMoxError", "Afdeling ikke unik", <<>>)
               /\ UNCHANGED <<i, unit, errors>>
          ELSE IF sdUnit.kind = "none"
          THEN /\ unit' = NoUnit
               /\ errors' = <<"Unit">>
               /\ i' = i + 1
               /\ pc' = "check_loop"
               /\ UNCHANGED result
          ELSE IF r.raised # ""
          THEN /\ RaiseOf(r.raised)
               /\ UNCHANGED <<i, unit, errors>>
          ELSE /\ unit' = [kind |-> "one", dept |-> [sdUnit.dept EXCEPT !.Parent = None]]
               /\ errors' = r.errors
               /\ IF check_args.parent # <<>>
                  THEN pc' = "check_parent" /\ i' = i
                  ELSE pc' = "check_after" /\ i' = i + 1
               /\ UNCHANGED result
    /\ log' = Append(log, "_check_department")
    /\ UNCHANGED <<engine, helper, broker, operation, check_args, op, dry_run, at, unit_data, payload,
                   sdUnit>>

\* _check_department: _read_parent and the parent comparison; the unit was
\* found, so the loop breaks
check_read_parent ==
    /\ pc = "check_parent"
    /\ reads' = reads \cup {read_date}
    /\ LET parent_info == IF sdUnit.kind = "one" THEN sdUnit.dept.Parent ELSE None
       IN /\ errors' = check_parent(parent_info, check_args, errors)
          /\ unit' = [unit EXCEPT !.dept.Parent = parent_info]
    /\ i' = i + 1
    /\ pc' = "check_after"
    /\ log' = Append(log, "_read_parent")
    /\ UNCHANGED <<engine, helper, broker, operation, check_args, op, dry_run, at, unit_data,
                   payload, sdUnit, result>>

\* the end of _check_unit returning whatever unit was found
check_outcome_found_is_enough(u, e) == IF u.kind = "none" THEN "not found" ELSE "return"

\* the end of _check_unit: "if unit is None: raise ... elif errors: raise ...
\* return unit"
check_outcome(u, e) ==
    IF u.kind = "none" THEN "not found"
    ELSE IF e # <<>> THEN "not updated"
    ELSE "return"

\* _check_unit after the loop (exhausted, or left by break), and what the public
\* operation does with its result: create_unit goes on from the "ret" check of
\* _update_ou to the "import" check, every other check's unit is returned
check_exit ==
    /\ \/ pc = "check_after"
       \/ pc = "check_loop" /\ ~(i < amqp_check_retries)
    /\ IF check_outcome(unit, errors) = "not found"
       THEN /\ Raise("SDMoxError", "Afdeling ikke fundet", <<>>)
            /\ UNCHANGED checkv
       ELSE IF check_outcome(unit, errors) = "not updated"
       THEN /\ Raise("SDMoxError", "Foelgende felter kunne ikke opdateres i SD", errors)
            /\ UNCHANGED checkv
       ELSE IF op = "create_unit" /\ operation = "ret"
       THEN /\ start_check("import", check_kwargs(payload))
            /\ UNCHANGED result
       ELSE /\ pc' = "done"
            /\ result' = [kind |-> "return", msg |-> "", detail |-> <<>>]
            /\ UNCHANGED checkv
    /\ UNCHANGED <<engine, helper, broker, op, dry_run, at, unit_data, payload, sdUnit, reads, log>>

-----------------------------------------------------------------------------
(* The registry *)

\* the registry processes one submitted document, some time after it was
\* published; what it then holds for the unit is up to the registry
registry_apply_of(answers) ==
    /\ pc # "done"
    /\ pending > 0
    /\ pending' = pending - 1
    /\ sdUnit' \in answers
    /\ UNCHANGED <<engine, helper, checkv, op, dry_run, at, reads, unit_data, payload, channel,
                   callback_queue, connections, published, log, result, pc>>

registry_apply == registry_apply_of(RegistryAnswers)

-----------------------------------------------------------------------------
Next ==
    \/ rename_unit
    \/ move_unit
    \/ move_parent
    \/ create_unit
    \/ create_code
    \/ create_parent
    \/ create_address
    \/ edit_address
    \/ check_sleep
    \/ check_read
    \/ check_read_parent
    \/ check_exit
    \/ registry_apply

Spec == Init /\ [][Next]_vars

-----------------------------------------------------------------------------
(* The engine from its construction: SDMox(from_date, to_date), and then one  *)
(* public operation with any "at"                                             *)

\* self._times before _update_virkning has set it
NoTimes == [virk_from |-> <<>>, virk_to |-> <<>>]

\* _update_virkning(from_date, to_date): self.virkning is assigned, to_date gets
\* its default, the day of from_date is tested, and only then self._times is
\* assigned
update_virkning(from_date_, to_date_) ==
    LET end == IF to_date_ = NoDate THEN VirkTo ELSE to_date_
    IN IF from_date_.day # 1
       THEN [raised |-> "Startdato skal altid vaere den foerste i en maaned",
             virkning |-> from_date_, times |-> times]
       ELSE [raised |-> "", virkning |-> from_date_,
             times |-> [virk_from |-> strftime(from_date_), virk_to |-> strftime(end)]]

\* the from_date and to_date an engine may be constructed with
FromDates == {NoDate, FromDate, OldDate, MidMonth}
ToDates == {NoDate, EndDate}

\* SDMox.__init__(from_date, to_date): the level catalog is read from the
\* directory, and "if from_date: self._update_virkning(from_date)"
new_SDMox ==
    /\ pc = "new"
    /\ \E fd \in FromDates, td \in ToDates :
          LET w == IF fd # NoDate
                   THEN update_virkning(fd, NoDate)
                   ELSE [raised |-> "", virkning |-> virkning, times |-> times]
          IN /\ from_date' = fd
             /\ to_date' = td
             /\ sd_levels' = read_ou_levelkeys
             /\ level_by_uuid' = inverse(read_ou_levelkeys)
             /\ virkning' = w.virkning
             /\ times' = w.times
             /\ IF w.raised # ""
                THEN /\ op' = "__init__"
                     /\ Raise("SDMoxError", w.raised, <<>>)
                ELSE /\ pc' = "idle"
                     /\ UNCHANGED <<op, result>>
    /\ UNCHANGED <<amqp_check_retries, helper, broker, checkv, dry_run, at, reads, unit_data,
                   payload, sdUnit, log>>

\* the "at" an operation may be called with
AtDates == {FromDate, MidMonth}

\* the recorded addresses of the unit here: none, or one
FewAddresses == {l \in AddressLists : Len(l) <= 1}

rename_unit_at == rename_unit_of(AtDates, BOOLEAN, NewNames, Codes, FewAddresses)

move_unit_at == move_unit_of(AtDates, BOOLEAN, Codes, UnitLevelUuids, ParentLevelUuids)

create_address_at ==
    address_body("create_address", AtDates, BOOLEAN, DirCodes, AddressRecords, FewAddresses)

edit_address_at ==
    address_body("edit_address", AtDates, BOOLEAN, DirCodes, AddressRecords, FewAddresses)

InitEngine ==
    /\ pc = "new"
    /\ op = ""
    /\ dry_run = FALSE
    /\ at = NoDate
    /\ reads = {}
    /\ amqp_check_retries = 1
    /\ unit_data = NoUnitData
    /\ payload = NoPayload
    /\ operation = ""
    /\ check_args = NoArgs
    /\ i = 0
    /\ unit = NoUnit
    /\ errors = <<>>
    /\ channel = 0
    /\ callback_queue = 0
    /\ connections = 0
    /\ published = <<>>
    /\ pending = 0
    /\ sdUnit \in {NoUnit, [kind |-> "one", dept |-> RefDept]}
    /\ virkning = NoDate
    /\ times = NoTimes
    /\ sd_levels = <<>>
    /\ level_by_uuid = <<>>
    /\ from_date = NoDate
    /\ to_date = NoDate
    /\ log = <<>>
    /\ result = Running
    /\ call = NoCall
    /\ other = IdleFrame
    /\ ret = <<>>

NextEngine ==
    \/ new_SDMox
    \/ rename_unit_at
    \/ move_unit_at
    \/ move_parent
    \/ create_unit
    \/ create_code
    \/ create_parent
    \/ create_address_at
    \/ edit_address_at
    \/ check_sleep
    \/ check_read
    \/ check_read_parent
    \/ check_exit
    \/ registry_apply

SpecEngine == InitEngine /\ [][NextEngine]_vars

-----------------------------------------------------------------------------
(* Two invocations on one engine, interleaved at their await points: the one  *)
(* that runs has its locals in pc .. result, the suspended one in other;      *)
(* self.channel, self.callback_queue, the window and the catalog are shared   *)

\* the locals of the running invocation, and what the registry holds for its unit
frame ==
    [pc |-> pc, op |-> op, dry_run |-> dry_run, at |-> at, unit_data |-> unit_data,
     payload |-> payload, operation |-> operation, check_args |-> check_args, i |-> i,
     unit |-> unit, errors |-> errors, log |-> log, result |-> result, sdUnit |-> sdUnit]

\* the running invocation is suspended in an await (a registry read, or the
\* sleep of _check_unit), has not begun, or has ended
Awaiting ==
    \/ pc \in {"idle", "create_code", "create_parent", "move_parent", "check_read",
                "check_parent", "done"}
    \/ pc = "check_loop" /\ i < amqp_check_retries

\* the event loop resumes the other invocation
switch ==
    /\ Awaiting
    /\ other.pc # "done"
    /\ pc' = other.pc
    /\ op' = other.op
    /\ dry_run' = other.dry_run
    /\ at' = other.at
    /\ unit_data' = other.unit_data
    /\ payload' = other.payload
    /\ operation' = other.operation
    /\ check_args' = other.check_args
    /\ i' = other.i
    /\ unit' = other.unit
    /\ errors' = other.errors
    /\ log' = other.log
    /\ result' = other.result
    /\ sdUnit' = other.sdUnit
    /\ other' = frame
    /\ UNCHANGED <<engine, broker, reads, call, ret>>

\* the details a unit is created with here: none, or a phone number
PairDetails == {d \in DetailLists : \A k \in 1..Len(d) : k = 1 /\ d[k].scope = "PHONE"}

\* what the registry may come to hold for a unit here
PairAnswers == {NoUnit, [kind |-> "one", dept |-> RefDept]}

create_unit_either ==
    create_unit_of({UnitUuid, OtherUuid}, BOOLEAN, {RefCode}, {"uuid-afd"}, {"uuid-ny1"},
                   PairDetails)

rename_unit_plain == rename_unit_of({FromDate}, BOOLEAN, {RefName}, {RefCode}, {<<>>})

move_unit_plain == move_unit_of({FromDate}, BOOLEAN, {RefCode}, {"uuid-afd"}, {"uuid-ny1"})

registry_apply_some == registry_apply_of(PairAnswers)

InitPair ==
    /\ pc = "idle"
    /\ op = ""
    /\ dry_run = FALSE
    /\ at = NoDate
    /\ reads = {}
    /\ amqp_check_retries = 1
    /\ unit_data = NoUnitData
    /\ payload = NoPayload
    /\ operation = ""
    /\ check_args = NoArgs
    /\ i = 0
    /\ unit = NoUnit
    /\ errors = <<>>
    /\ channel = 0
    /\ callback_queue = 0
    /\ connections = 0
    /\ published = <<>>
    /\ pending = 0
    /\ sdUnit = NoUnit
    /\ virkning = FromDate
    /\ times = [virk_from |-> strftime(FromDate), virk_to |-> strftime(VirkTo)]
    /\ sd_levels = read_ou_levelkeys
    /\ level_by_uuid = inverse(read_ou_levelkeys)
    /\ from_date = FromDate
    /\ to_date = NoDate
    /\ log = <<>>
    /\ result = Running
    /\ call = NoCall
    /\ ret = <<>>
    /\ other = IdleFrame

NextPair ==
    \/ switch
    \/ rename_unit_plain
    \/ move_unit_plain
    \/ move_parent
    \/ create_unit_either
    \/ create_code
    \/ create_parent
    \/ check_sleep
    \/ check_read
    \/ check_read_parent
    \/ check_exit
    \/ registry_apply_some

SpecPair == InitPair /\ [][NextPair]_vars

-----------------------------------------------------------------------------
(* _check_unit on its own: one verification attempt for any expected values,  *)
(* against a registry whose record of the unit is off in up to two fields      *)

CheckOperations == {"ret", "import", "flyt"}

CheckArgs ==
    [unit_name : {NoneText, RefName, <<"A">>},
     unit_code : {NoneText, RefCode},
     unit_uuid : {UnitUuid},
     unit_level : {None, "Afdelings-niveau"},
     phone : {None, "p1"},
     pnummer : {None, "n1"},
     adresse : {<<>>, RefAdresse},
     parent : {<<>>, <<[unit_code |-> ParentCode, uuid |-> ParentUuid,
                        level |-> "NY1-niveau"]>>}]

CheckAnswers ==
    {[kind |-> "none", dept |-> RefDept], [kind |-> "list", dept |-> RefDept]}
    \cup {[kind |-> "one", dept |-> d] : d \in Vary(Departments)}

InitCheck ==
    /\ pc = "check_read"
    /\ op = "_check_unit"
    /\ dry_run = TRUE
    /\ at = NoDate
    /\ reads = {}
    /\ amqp_check_retries = 1
    /\ unit_data = NoUnitData
    /\ payload = NoPayload
    /\ operation \in CheckOperations
    /\ check_args \in CheckArgs
    /\ i = 0
    /\ unit = NoUnit
    /\ errors = <<>>
    /\ channel = 0
    /\ callback_queue = 0
    /\ connections = 0
    /\ published = <<>>
    /\ pending = 0
    /\ sdUnit \in CheckAnswers
    /\ virkning = FromDate
    /\ times = [virk_from |-> strftime(FromDate), virk_to |-> strftime(VirkTo)]
    /\ sd_levels = read_ou_levelkeys
    /\ level_by_uuid = inverse(read_ou_levelkeys)
    /\ from_date = FromDate
    /\ to_date = NoDate
    /\ log = <<"sleep">>
    /\ result = Running
    /\ call = NoCall
    /\ other = IdleFrame
    /\ ret = <<>>

NextCheck ==
    \/ check_read
    \/ check_read_parent
    \/ check_exit

SpecCheck == InitCheck /\ [][NextCheck]_vars

-----------------------------------------------------------------------------
(* The helper methods on their own: each is called once with arguments drawn *)
(* from bounded sets, as the unit tests call them                             *)

\* characters a unit code is written with
CodeChars == {"A", "a", "1", "-"}

\* the unit codes of up to one character more than the longest valid one, and None
CodeInputs ==
    {NoneText} \cup UNION {[1..n -> CodeChars] : n \in 0..(MaxCodeLen + 1)}

ValidateCalls ==
    {[fn |-> "_validate_unit_code",
      args |-> [unit_code |-> c, can_exist |-> e, department |-> d]] :
        c \in CodeInputs, e \in BOOLEAN, d \in {"none", "one"}}

\* await self._validate_unit_code(unit_code, can_exist=...), the registry
\* answering the duplicate lookup with args.department
validate_unit_code_call ==
    /\ call.fn = "_validate_unit_code"
    /\ ret = <<>>
    /\ ret' = <<validate_unit_code(call.args.unit_code, call.args.can_exist,
                                   call.args.department)>>
    /\ UNCHANGED <<pc, op, dry_run, at, engine, broker, checkv, unit_data, payload, sdUnit, reads,
                   log, result, call, other>>

\* every org_unit_level uuid: the three configured levels and an unmapped one
LevelUuids == {ClassUuid(key) : key \in LevelKeys} \cup {UnknownLevelUuid}

PayloadCreateCalls ==
    {[fn |-> "_payload_create",
      args |-> [unit_uuid |-> UnitUuid,
                unit |-> [name |-> n, user_key |-> c, org_unit_level |-> ul],
                parent |-> [user_key |-> ParentCode, uuid |-> pu, org_unit_level |-> pl]]] :
        n \in NewNames, c \in {RefCode, <<"a">>}, ul \in LevelUuids, pl \in LevelUuids,
        pu \in {ParentUuid, OtherUuid}}

\* self._payload_create(unit_uuid, unit, parent)
payload_create_call ==
    /\ call.fn = "_payload_create"
    /\ ret = <<>>
    /\ ret' = <<payload_create(call.args.unit_uuid, call.args.unit, call.args.parent)>>
    /\ UNCHANGED <<pc, op, dry_run, at, engine, broker, checkv, unit_data, payload, sdUnit, reads,
                   log, result, call, other>>

\* address records with a second value for every scope and key
MoreAddressRecords ==
    AddressRecords
    \cup {[scope |-> "DAR", user_key |-> "AdresseLokation", value |-> "dar-2"],
          [scope |-> "PNUMBER", user_key |-> "Pnummer", value |-> "n2"],
          [scope |-> "TEXT", user_key |-> "Formaalskode", value |-> "f2"],
          [scope |-> "TEXT", user_key |-> "Skolekode", value |-> "s1"]}

MoreAddressLists == UNION {[1..n -> MoreAddressRecords] : n \in 0..MaxAddrs}

\* the records among them whose address, if they are postal, the address service
\* resolves to a label
GoodAddressRecords == {r \in MoreAddressRecords : r.value # "dar-none"}

CreateAddressCalls ==
    {[fn |-> "create_address",
      args |-> [dry_run |-> FALSE, unit_data |-> [name |-> RefName, user_key |-> RefCode],
                address_data |-> a, previous_addresses |-> prev]] :
        a \in GoodAddressRecords,
        prev \in UNION {[1..n -> GoodAddressRecords] : n \in 0..MaxAddrs}}

\* create_address with the directory holding args.unit_data and
\* args.previous_addresses for the unit; its verification follows through
\* check_sleep, check_read and check_exit, the registry keeping its record
create_address_call ==
    /\ pc = "idle"
    /\ call.fn = "create_address"
    /\ add_address("create_address", call.args.dry_run, call.args.unit_data,
                   call.args.address_data, call.args.previous_addresses)
    /\ UNCHANGED <<engine, helper, at, unit_data, payload, sdUnit, reads>>

GroupedAddressesCalls ==
    {[fn |-> "_grouped_addresses", args |-> [details |-> d]] :
        d \in MoreAddressLists}

\* self._grouped_addresses(details)
grouped_addresses_call ==
    /\ call.fn = "_grouped_addresses"
    /\ ret = <<>>
    /\ ret' = <<grouped_addresses(call.args.details)>>
    /\ UNCHANGED <<pc, op, dry_run, at, engine, broker, checkv, unit_data, payload, sdUnit, reads,
                   log, result, call, other>>

\* characters an address label is written with
LabelChars == {"T", " ", ","}

MoToSdAddressCalls ==
    {[fn |-> "_mo_to_sd_address", args |-> [address |-> a]] :
        a \in {NoneText} \cup UNION {[1..n -> LabelChars] : n \in 0..MaxLabelLen}}

\* self._mo_to_sd_address(address)
mo_to_sd_address_call ==
    /\ call.fn = "_mo_to_sd_address"
    /\ ret = <<>>
    /\ ret' = <<mo_to_sd_address(call.args.address)>>
    /\ UNCHANGED <<pc, op, dry_run, at, engine, broker, checkv, unit_data, payload, sdUnit, reads,
                   log, result, call, other>>

\* the answers of the four endpoints to one lookup
EndpointAnswers ==
    {RequestError} \cup {Objs(l) : l \in {<<>>, <<Label1>>, <<Label2>>, <<Label1, Label2>>}}

GetDarAddressCalls ==
    {[fn |-> "_get_dar_address", args |-> [answers |-> a]] :
        a \in [1..Len(Endpoints) -> EndpointAnswers]}

\* self._get_dar_address(addrid), the endpoints answering args.answers
get_dar_address_call ==
    /\ call.fn = "_get_dar_address"
    /\ ret = <<>>
    /\ ret' = <<get_dar_address_loop(call.args.answers, 1, <<>>)>>
    /\ UNCHANGED <<pc, op, dry_run, at, engine, broker, checkv, unit_data, payload, sdUnit, reads,
                   log, result, call, other>>

InitHelpers ==
    /\ pc = "idle"
    /\ op = ""
    /\ dry_run = FALSE
    /\ at = NoDate
    /\ reads = {}
    /\ amqp_check_retries = 1
    /\ unit_data = NoUnitData
    /\ payload = NoPayload
    /\ operation = ""
    /\ check_args = NoArgs
    /\ i = 0
    /\ unit = NoUnit
    /\ errors = <<>>
    /\ channel = 0
    /\ callback_queue = 0
    /\ connections = 0
    /\ published = <<>>
    /\ pending = 0
    /\ sdUnit = [kind |-> "one", dept |-> RefDept]
    /\ virkning = FromDate
    /\ times = [virk_from |-> strftime(FromDate), virk_to |-> strftime(VirkTo)]
    /\ sd_levels = read_ou_levelkeys
    /\ level_by_uuid = inverse(read_ou_levelkeys)
    /\ from_date = FromDate
    /\ to_date = NoDate
    /\ log = <<>>
    /\ result = Running
    /\ \/ call \in ValidateCalls
       \/ call \in PayloadCreateCalls
       \/ call \in CreateAddressCalls
       \/ call \in GroupedAddressesCalls
       \/ call \in MoToSdAddressCalls
       \/ call \in GetDarAddressCalls
    /\ ret = <<>>
    /\ other = IdleFrame

NextHelpers ==
    \/ validate_unit_code_call
    \/ payload_create_call
    \/ create_address_call
    \/ grouped_addresses_call
    \/ mo_to_sd_address_call
    \/ get_dar_address_call
    \/ check_sleep
    \/ check_read
    \/ check_exit

SpecHelpers == InitHelpers /\ [][NextHelpers]_vars

-----------------------------------------------------------------------------
(* Properties, part 1: submission and the verification loop *)

\* the failures that the validations before a submission raise
ValidationMessages ==
    {"code_errors", "Enhedstype er ikke et kendt NY-niveau",
     "Foraeldreenhedens enhedstype er ikke et kendt NY-niveau",
     "Foraeldrenheden findes ikke", "Enhedstypen passer ikke til foraeldreenheden",
     "Opret postaddresse foer pnummer", "Addresse ikke fundet i DAR"}

ValidationFailure(r) ==
    \/ r.kind = "SDMoxError" /\ r.msg \in ValidationMessages
    \/ r.kind = "ValueError"

\* C1: an operation that ended in a validation failure (unit code, unknown
\* level, level hierarchy, missing parent, P-number without postal address,
\* unresolvable or undecomposable address) has published no document
C1_NoPublishOnValidationFailure ==
    (pc = "done" /\ ValidationFailure(result)) => published = <<>>

\* C2: the verification loop is left before its attempts are used up only when
\* the attempt found the unit with no mismatch
C2_PollsWhileMismatched ==
    pc = "check_after" => (errors = <<>> \/ i = amqp_check_retries)

Attempts == Count(log, "_check_department")

\* how many times the operation can run _check_unit
Verifications == IF op = "create_unit" THEN 2 ELSE 1

\* C3: the loop makes at most amqp_check_retries attempts, every attempt comes
\* directly after one wait and every wait is followed by one attempt, attempts
\* that all found nothing end in "Afdeling ikke fundet", and with zero retries
\* the registry is not read for verification at all
C3_BoundedPolling ==
    /\ i <= amqp_check_retries
    /\ Attempts <= Verifications * amqp_check_retries
    /\ \A k \in 1..Len(log) :
          log[k] = "_check_department" => (k > 1 /\ log[k - 1] = "sleep")
    /\ \A k \in 1..Len(log) :
          log[k] = "sleep" => IF k = Len(log) THEN pc = "check_read"
                              ELSE log[k + 1] = "_check_department"
    /\ (pc = "done" /\ operation # "" /\ unit.kind = "none" /\ i = amqp_check_retries)
          => (result.kind = "SDMoxError" /\ result.msg = "Afdeling ikke fundet")
    /\ result.msg = "Afdeling ikke fundet" => (unit.kind = "none" /\ i = amqp_check_retries)
    /\ amqp_check_retries = 0 => (Attempts = 0 /\ "_read_parent" \notin Range(log))

C3_Witness ==
    /\ pc = "done"
    /\ amqp_check_retries = MaxRetries
    /\ Attempts = amqp_check_retries
    /\ result.msg = "Afdeling ikke fundet"

IsPrefix(p, t) == Len(p) <= Len(t) /\ \A k \in 1..Len(p) : p[k] = t[k]

\* every expected field of a agrees with what was observed in d
Converged(d, a, oper) ==
    /\ oper \in {"ret", "import"} => d.ActivationDate = virkning
    /\ a.unit_name # NoneText => IsPrefix(d.DepartmentName, a.unit_name)
    /\ a.unit_code # NoneText => d.DepartmentIdentifier = a.unit_code
    /\ a.unit_uuid # None => d.DepartmentUUIDIdentifier = a.unit_uuid
    /\ a.unit_level # None => d.DepartmentLevelIdentifier = a.unit_level
    /\ a.phone # None => d.TelephoneNumberIdentifier = a.phone
    /\ a.pnummer # None => d.ProductionUnitIdentifier = a.pnummer
    /\ a.adresse # <<>> => /\ d.StandardAddressIdentifier = a.adresse[1]
                           /\ d.PostalCode = a.adresse[2]
                           /\ d.DistrictName = a.adresse[3]
    /\ a.parent # <<>> => d.Parent = a.parent[1].uuid

\* the document kind of the verification an operation ends with
FinalOperation ==
    CASE op = "create_unit" -> "import"
      [] op = "move_unit" -> "flyt"
      [] OTHER -> "ret"

\* C4: an operation returns only when the last attempt of its last verification
\* found the unit with every expected field matching; absence or a mismatch is
\* raised as an error
C4_ReturnOnlyVerified ==
    /\ result.kind = "return" =>
          /\ pc = "done"
          /\ operation = FinalOperation
          /\ unit.kind = "one"
          /\ errors = <<>>
          /\ Converged(unit.dept, check_args, operation)
          /\ log[Len(log)] \in {"_check_department", "_read_parent"}
    /\ (pc = "done" /\ operation = FinalOperation /\ result.kind \notin {"return", "TypeError"}
          /\ result.msg # "Afdeling ikke unik")
          => \/ unit.kind = "none" /\ result.msg = "Afdeling ikke fundet"
             \/ unit.kind = "one" /\ errors # <<>> /\ result.detail = errors

C4_Witness ==
    /\ result.kind = "return"
    /\ op = "create_unit"
    /\ ~dry_run
    /\ check_args.parent # <<>>
    /\ Len(published) = 2

\* the validation and document-building steps of each operation
StepsOf(o) ==
    CASE o = "rename_unit" -> {"_validate_unit_code", "_payload_edit", "_create_xml_ret"}
      [] o = "move_unit" -> {"_validate_unit_code", "_payload_create", "_read_department",
                             "level_check", "_create_xml_flyt"}
      [] o = "create_unit" -> {"_payload_create", "_validate_unit_code", "_read_department",
                               "level_check", "_create_xml_import"}
      [] OTHER -> {"_payload_edit", "_create_xml_ret"}

\* C5: a dry run opens no connection or channel and publishes nothing, and once
\* it reaches verification it has gone through every validation and built the
\* document
C5_DryRunNoNetwork ==
    dry_run =>
       /\ connections = 0 /\ channel = 0 /\ callback_queue = 0
       /\ published = <<>> /\ pending = 0
       /\ "_call" \notin Range(log)
       /\ operation # "" => StepsOf(op) \subseteq Range(log)
       /\ (op = "create_unit" /\ operation = "ret")
             => {"_payload_edit", "_create_xml_ret"} \subseteq Range(log)

C5_Witness ==
    /\ dry_run
    /\ pc = "done"
    /\ op = "create_unit"
    /\ operation = "import"
    /\ "_create_xml_import" \in Range(log)
    /\ Attempts = amqp_check_retries
    /\ amqp_check_retries > 0

\* C6: a dry-run create_unit whose validations all passed, with the unit not in
\* the registry, completes without error
C6_DryRunCreateCompletes ==
    (pc = "done" /\ dry_run /\ op = "create_unit" /\ operation = "import"
        /\ amqp_check_retries > 0 /\ sdUnit.kind = "none")
       => result.kind = "return"

-----------------------------------------------------------------------------
(* Properties, part 2: the comparisons of one verification attempt *)

\* an attempt found the unit and compared it; errors are its mismatches
Compared == pc \in {"check_parent", "check_after"}

\* C7: with an expected name, "Name" is reported exactly when the observed name
\* is not a prefix of the expected one
C7_NamePrefix ==
    (Compared /\ check_args.unit_name # NoneText)
       => ("Name" \in Range(errors)
             <=> ~IsPrefix(unit.dept.DepartmentName, check_args.unit_name))

C7_Witness ==
    /\ Compared
    /\ check_args.unit_name = RefName
    /\ unit.dept.DepartmentName = <<"A">>
    /\ "Name" \notin Range(errors)

\* C8: move_unit never reports a name mismatch, in its attempts or in its
\* error, although every document it published carries the unit's name
C8_MoveIgnoresName ==
    op = "move_unit" =>
       /\ "Name" \notin Range(errors)
       /\ "Name" \notin Range(result.detail)
       /\ operation # "" => check_args.unit_name = NoneText
       /\ \A k \in 1..Len(published) : published[k].body.unit_name \in NewNames \cup {RefName}

C8_Witness ==
    /\ op = "move_unit"
    /\ result.kind = "return"
    /\ Len(published) = 1
    /\ unit.dept.DepartmentName = <<"B">>

\* C9: for ret and import the activation date is reported exactly when it
\* differs from the expected effective date; for flyt it is never reported
C9_ActivationDate ==
    Compared =>
       ("Activation Date" \in Range(errors)
          <=> (operation \in {"ret", "import"} /\ unit.dept.ActivationDate # virkning))

C9_Witness ==
    /\ Compared
    /\ operation = "flyt"
    /\ unit.dept.ActivationDate # virkning
    /\ "Activation Date" \notin Range(errors)

\* C10: phone, P-number and the three postal fields are each reported exactly
\* when a value is expected and the observed value differs from it
C10_ExpectedFieldsOnly ==
    Compared =>
       /\ "Phone" \in Range(errors)
             <=> (check_args.phone # None
                    /\ unit.dept.TelephoneNumberIdentifier # check_args.phone)
       /\ "Pnummer" \in Range(errors)
             <=> (check_args.pnummer # None
                    /\ unit.dept.ProductionUnitIdentifier # check_args.pnummer)
       /\ "Address" \in Range(errors)
             <=> (check_args.adresse # <<>>
                    /\ unit.dept.StandardAddressIdentifier # check_args.adresse[1])
       /\ "Zip code" \in Range(errors)
             <=> (check_args.adresse # <<>> /\ unit.dept.PostalCode # check_args.adresse[2])
       /\ "Postal Area" \in Range(errors)
             <=> (check_args.adresse # <<>> /\ unit.dept.DistrictName # check_args.adresse[3])

C10_Witness ==
    /\ Compared
    /\ check_args.phone = None
    /\ unit.dept.TelephoneNumberIdentifier # RefDept.TelephoneNumberIdentifier
    /\ check_args.adresse = <<>>
    /\ unit.dept.PostalCode # RefDept.PostalCode
    /\ errors = <<>>

\* the checked fields whose comparison fails for observed d and expected a
Failing(d, a, oper) ==
    {f \in {"Activation Date", "Name", "Unit code", "UUID", "Level", "Phone", "Pnummer",
            "Address", "Zip code", "Postal Area", "Parent"} :
       \/ f = "Activation Date" /\ oper \in {"ret", "import"} /\ d.ActivationDate # virkning
       \/ f = "Name" /\ a.unit_name # NoneText /\ ~IsPrefix(d.DepartmentName, a.unit_name)
       \/ f = "Unit code" /\ a.unit_code # NoneText /\ d.DepartmentIdentifier # a.unit_code
       \/ f = "UUID" /\ a.unit_uuid # None /\ d.DepartmentUUIDIdentifier # a.unit_uuid
       \/ f = "Level" /\ a.unit_level # None /\ d.DepartmentLevelIdentifier # a.unit_level
       \/ f = "Phone" /\ a.phone # None /\ d.TelephoneNumberIdentifier # a.phone
       \/ f = "Pnummer" /\ a.pnummer # None /\ d.ProductionUnitIdentifier # a.pnummer
       \/ f = "Address" /\ a.adresse # <<>> /\ d.StandardAddressIdentifier # a.adresse[1]
       \/ f = "Zip code" /\ a.adresse # <<>> /\ d.PostalCode # a.adresse[2]
       \/ f = "Postal Area" /\ a.adresse # <<>> /\ d.DistrictName # a.adresse[3]
       \/ f = "Parent" /\ a.parent # <<>> /\ d.Parent # a.parent[1].uuid}

\* C11: an attempt that found the unit returns one entry for every checked
\* field whose comparison fails and nothing else, whatever failed before it; an
\* expected parent without parent information from the registry is a "Parent"
\* mismatch
C11_AllMismatchesCollected ==
    pc = "check_after" =>
       /\ Range(errors) = Failing(unit.dept, check_args, operation)
       /\ Len(errors) = Cardinality(Range(errors))

C11_Witness ==
    /\ pc = "check_after"
    /\ check_args.parent # <<>>
    /\ unit.dept.Parent = None
    /\ {"Name", "Unit code", "Parent"} = Range(errors)

\* positions of the log where the registry was asked for a unit with the code
Lookups == {k \in 1..Len(log) : log[k] \in {code_lookup(a) : a \in {"none", "one", "list"}}}

\* a unit code that breaks no syntax rule
WellFormed(c) ==
    c # NoneText /\ Len(c) \in 2..4
    /\ \A k \in 1..Len(c) : c[k] \in {"A", "B", "C", "D", "1", "2", "4"}

RankOf(l) == CASE l = "NY2-niveau" -> 0 [] l = "NY1-niveau" -> 1 [] l = "Afdelings-niveau" -> 2

\* the registry's answer to the parent lookup of this operation, as logged
ParentSeen(l) == parent_department([kind |-> "one", level |-> l]) \in Range(log)
ParentMissing == parent_department([kind |-> "none", level |-> None]) \in Range(log)

\* an import or flyt document was published
StructuralPublished ==
    \E k \in 1..Len(published) : published[k].body.kind \in {"import", "flyt"}

\* C15: an import or flyt document is published only after the registry was
\* asked for the parent, had it, and reported for it a level that ranks
\* strictly above the unit's level; a missing parent ends the operation with
\* "Foraeldrenheden findes ikke", a level that does not rank above the unit's
\* with "Enhedstypen passer ikke til foraeldreenheden", nothing being published
C15_ParentCheckedBeforePublish ==
    /\ StructuralPublished =>
          \E l \in {"NY2-niveau", "NY1-niveau", "Afdelings-niveau"} :
             /\ ParentSeen(l)
             /\ RankOf(payload.unit_level) > RankOf(l)
             /\ \E j, k \in 1..Len(log) :
                   /\ j < k
                   /\ log[j] = parent_department([kind |-> "one", level |-> l])
                   /\ log[k] = "_call"
    /\ "_call" \in Range(log) => (op \in {"create_unit", "move_unit"} => StructuralPublished)
    /\ ParentMissing =>
          /\ pc = "done"
          /\ result.kind = "SDMoxError"
          /\ result.msg = "Foraeldrenheden findes ikke"
          /\ published = <<>>
    /\ \A l \in {"NY2-niveau", "NY1-niveau", "Afdelings-niveau"} :
          (ParentSeen(l) /\ ~(RankOf(payload.unit_level) > RankOf(l))) =>
             /\ pc = "done"
             /\ result.kind = "SDMoxError"
             /\ result.msg = "Enhedstypen passer ikke til foraeldreenheden"
             /\ published = <<>>

C15_Witness ==
    /\ op = "move_unit"
    /\ StructuralPublished
    /\ payload.unit_level = "Afdelings-niveau"
    /\ ParentSeen("NY1-niveau")

-----------------------------------------------------------------------------
(* Properties, part 3: the helper methods *)

\* the helper fn was called and has returned
Returned(fn) == call.fn = fn /\ ret # <<>>

\* C12: with can_exist, a code of 2 to 4 upper-case letters and digits has no
\* violation; a code that is given gets the named violation of each syntax
\* rule it breaks, each rule on its own (an empty code also counts as having an
\* invalid character); a missing code gets "Enhedsnummer ikke angivet"
C12_CodeSyntaxRules ==
    (Returned("_validate_unit_code") /\ call.args.can_exist) =>
       LET c == call.args.unit_code
           v == Range(ret[1])
       IN /\ c = NoneText => ret[1] = <<"Enhedsnummer ikke angivet">>
          /\ c # NoneText =>
                /\ "Enhedsnummer for kort" \in v <=> Len(c) < 2
                /\ "Enhedsnummer for langt" \in v <=> Len(c) > 4
                /\ "Ugyldigt tegn i enhedsnummer" \in v
                      <=> (c = <<>> \/ \E k \in 1..Len(c) : c[k] \notin {"A", "a", "1"})
                /\ "Enhedsnummer skal vaere store bogstaver" \in v
                      <=> \E k \in 1..Len(c) : c[k] = "a"
                /\ "Enhedsnummer ikke angivet" \notin v
                /\ "Enhedsnummer er i brug" \notin v
                /\ Len(ret[1]) = Cardinality(v)
          /\ (c # NoneText /\ Len(c) \in 2..4 /\ \A k \in 1..Len(c) : c[k] \in {"A", "1"})
                => ret[1] = <<>>

C12_Witness ==
    /\ Returned("_validate_unit_code")
    /\ call.args.can_exist
    /\ call.args.department = "one"
    /\ call.args.unit_code = <<"a", "-", "A", "A", "A">>
    /\ Len(ret[1]) = 3

\* the level uuids of the catalog, and the rank of each in the configured order
KnownLevelUuids == {"uuid-ny2", "uuid-ny1", "uuid-afd"}
RankOfUuid(u) == CASE u = "uuid-ny2" -> 0 [] u = "uuid-ny1" -> 1 [] u = "uuid-afd" -> 2

BothLevelsKnown ==
    /\ call.args.unit.org_unit_level \in KnownLevelUuids
    /\ call.args.parent.org_unit_level \in KnownLevelUuids

ParentRanksAbove ==
    RankOfUuid(call.args.parent.org_unit_level) < RankOfUuid(call.args.unit.org_unit_level)

\* C14 as stated: with both levels known _payload_create succeeds only when the
\* parent's rank is strictly less than the unit's, and raises otherwise
C14_PayloadCreateChecksRank ==
    (Returned("_payload_create") /\ BothLevelsKnown)
       => (ret[1].raised = "" <=> ParentRanksAbove)

\* C14, amended: with both levels known _payload_create succeeds whatever the
\* two ranks are, also for a parent of the unit's own level or a deeper one
C14_PayloadCreateIgnoresRank ==
    (Returned("_payload_create") /\ BothLevelsKnown)
       => /\ ret[1].raised = ""
          /\ ret[1].payload.unit_uuid = call.args.unit_uuid

C14_Witness ==
    /\ Returned("_payload_create")
    /\ call.args.unit.org_unit_level = "uuid-afd"
    /\ call.args.parent.org_unit_level = "uuid-afd"
    /\ ret[1].raised = ""
    /\ ret[1].payload.parent.level = "Afdelings-niveau"

\* the level name the catalog holds for a level uuid
NameOfUuid(u) ==
    CASE u = "uuid-ny2" -> "NY2-niveau"
      [] u = "uuid-ny1" -> "NY1-niveau"
      [] u = "uuid-afd" -> "Afdelings-niveau"

\* C16: _payload_create raises the unit's unknown-level error when the unit's
\* level uuid is not in the catalog, else the parent's when the parent's is
\* not; otherwise the payload holds the catalog's names of the two levels and
\* the name, code, uuid and the parent's code and uuid as they were given
C16_PayloadCreateLevels ==
    Returned("_payload_create") =>
       LET a == call.args
           r == ret[1]
       IN /\ a.unit.org_unit_level \notin KnownLevelUuids
                => r.raised = "Enhedstype er ikke et kendt NY-niveau"
          /\ (a.unit.org_unit_level \in KnownLevelUuids
                /\ a.parent.org_unit_level \notin KnownLevelUuids)
                => r.raised = "Foraeldreenhedens enhedstype er ikke et kendt NY-niveau"
          /\ BothLevelsKnown =>
                r.payload = [unit_name |-> a.unit.name,
                             unit_code |-> a.unit.user_key,
                             unit_uuid |-> a.unit_uuid,
                             unit_level |-> NameOfUuid(a.unit.org_unit_level),
                             parent |-> [unit_code |-> a.parent.user_key,
                                         uuid |-> a.parent.uuid,
                                         level |-> NameOfUuid(a.parent.org_unit_level)]]

C16_Witness ==
    /\ Returned("_payload_create")
    /\ call.args.unit.org_unit_level \notin KnownLevelUuids
    /\ call.args.parent.org_unit_level \notin KnownLevelUuids
    /\ ret[1].raised = "Enhedstype er ikke et kendt NY-niveau"

\* the address list has a record of the scope
HasScope(addresses, scope) == \E k \in 1..Len(addresses) : addresses[k].scope = scope

\* the addresses create_address works on: the new one and the recorded ones
GivenAddresses == <<call.args.address_data>> \o call.args.previous_addresses

\* C17: an edit payload with a production-unit number has a postal address,
\* and so has every published edit document; addresses with a PNUMBER record
\* and no DAR record end the operation with "Opret postaddresse foer pnummer"
\* and nothing published
C17_PnummerNeedsAddress ==
    (call.fn = "create_address" /\ pc # "idle") =>
       /\ (HasScope(GivenAddresses, "PNUMBER") /\ ~HasScope(GivenAddresses, "DAR")) =>
             /\ pc = "done"
             /\ result.kind = "SDMoxError"
             /\ result.msg = "Opret postaddresse foer pnummer"
             /\ published = <<>>
             /\ operation = ""
       /\ operation = "ret" =>
             /\ check_args.pnummer # None <=> HasScope(GivenAddresses, "PNUMBER")
             /\ check_args.pnummer # None => check_args.adresse # <<>>
       /\ \A k \in 1..Len(published) :
             /\ published[k].body.kind = "ret"
             /\ published[k].body.pnummer # None => published[k].body.adresse # <<>>

C17_Witness ==
    /\ call.fn = "create_address"
    /\ call.args.address_data.scope = "PNUMBER"
    /\ call.args.previous_addresses # <<>>
    /\ ~HasScope(call.args.previous_addresses, "DAR")
    /\ result.msg = "Opret postaddresse foer pnummer"

\* the value of the first record of addresses whose field is wanted, or None
FirstWith(addresses, field, wanted) ==
    LET hits == {k \in 1..Len(addresses) : addresses[k][field] = wanted}
    IN IF hits = {} THEN None
       ELSE addresses[CHOOSE k \in hits : \A m \in hits : k <= m].value

\* the value create_address is to submit for a scope / for a source key
Prior(field, wanted) ==
    IF call.args.address_data[field] = wanted
    THEN call.args.address_data.value
    ELSE FirstWith(call.args.previous_addresses, field, wanted)

\* the postal address of the two resolvable address ids
AdresseOf(addrid) ==
    CASE addrid = "dar-1" -> <<<<"T", " ", "4">>, <<"2">>, <<"B">>>>
      [] addrid = "dar-2" -> <<<<"S">>, <<"9">>, <<"K">>>>
      [] OTHER -> <<>>

\* C18: in create_address the payload's phone, production-unit number and
\* postal address are those of the new address for its own scope and, for the
\* other scopes, those of the first recorded address of the scope, None if
\* there is none; the free-text attributes follow the same rule by source key
C18_NewAddressFirst ==
    (call.fn = "create_address" /\ operation = "ret") =>
       /\ check_args.phone = Prior("scope", "PHONE")
       /\ check_args.pnummer = Prior("scope", "PNUMBER")
       /\ check_args.adresse = AdresseOf(Prior("scope", "DAR"))
       /\ Len(published) = 1
       /\ published[1].body.phone = Prior("scope", "PHONE")
       /\ published[1].body.pnummer = Prior("scope", "PNUMBER")
       /\ published[1].body.adresse = AdresseOf(Prior("scope", "DAR"))
       /\ published[1].body.funktionskode = Prior("user_key", "Formaalskode")
       /\ published[1].body.skolekode = Prior("user_key", "Skolekode")

C18_Witness ==
    /\ call.fn = "create_address"
    /\ operation = "ret"
    /\ call.args.address_data.value = "dar-2"
    /\ Len(call.args.previous_addresses) = 2
    /\ call.args.previous_addresses[1].value = "dar-1"
    /\ call.args.previous_addresses[2].value = "f2"
    /\ check_args.adresse = <<<<"S">>, <<"9">>, <<"K">>>>
    /\ Len(published) = 1
    /\ published[1].body.funktionskode = "f2"

\* positions of the records of details whose field is wanted, and the j-th of them
Positions(details, field, wanted) == {k \in 1..Len(details) : details[k][field] = wanted}
Nth(S, j) == CHOOSE k \in S : Cardinality({m \in S : m <= k}) = j

\* the label the address service holds for an address id
LabelOf(addrid) ==
    CASE addrid = "dar-1" -> <<"T", " ", "4", ",", " ", "2", " ", "B">>
      [] addrid = "dar-2" -> <<"S", ",", " ", "9", " ", "K">>
      [] addrid = "dar-short" -> <<"2", " ", "B">>

\* C19: _grouped_addresses returns, for every scope that occurs, the values of
\* the records of that scope in input order with each DAR value replaced by
\* its label, and for every source key that occurs the raw values of its
\* records in input order; scopes and keys that do not occur are absent
C19_GroupedInOrder ==
    (Returned("_grouped_addresses") /\ ret[1].raised = "") =>
       LET d == call.args.details
           scoped == ret[1].scoped
           keyed == ret[1].keyed
       IN /\ DOMAIN scoped = {d[k].scope : k \in 1..Len(d)}
          /\ DOMAIN keyed = {d[k].user_key : k \in 1..Len(d)}
          /\ \A s \in DOMAIN scoped :
                LET pos == Positions(d, "scope", s)
                IN /\ Len(scoped[s]) = Cardinality(pos)
                   /\ \A j \in 1..Cardinality(pos) :
                         scoped[s][j] = IF s = "DAR" THEN LabelOf(d[Nth(pos, j)].value)
                                        ELSE d[Nth(pos, j)].value
          /\ \A key \in DOMAIN keyed :
                LET pos == Positions(d, "user_key", key)
                IN /\ Len(keyed[key]) = Cardinality(pos)
                   /\ \A j \in 1..Cardinality(pos) : keyed[key][j] = d[Nth(pos, j)].value

C19_Witness ==
    /\ Returned("_grouped_addresses")
    /\ Len(call.args.details) = 2
    /\ call.args.details[1].value = "dar-2"
    /\ call.args.details[2].value = "dar-1"
    /\ ret[1].scoped["DAR"] = <<LabelOf("dar-2"), LabelOf("dar-1")>>
    /\ ret[1].keyed["AdresseLokation"] = <<"dar-2", "dar-1">>

\* positions of the spaces of a label, the last one and the one before it
Spaces(a) == {k \in 1..Len(a) : a[k] = " "}
LastSpace(a) == CHOOSE k \in Spaces(a) : \A m \in Spaces(a) : m <= k
SpaceBefore(a) ==
    CHOOSE k \in Spaces(a) \ {LastSpace(a)} : \A m \in Spaces(a) \ {LastSpace(a)} : m <= k

\* a text without one trailing comma, and without the spaces around it
DropComma(t) == IF t # <<>> /\ t[Len(t)] = "," THEN SubSeq(t, 1, Len(t) - 1) ELSE t
Trim(t) ==
    LET inked == {k \in 1..Len(t) : t[k] # " "}
    IN IF inked = {} THEN <<>>
       ELSE SubSeq(t, CHOOSE k \in inked : \A m \in inked : k <= m,
                      CHOOSE k \in inked : \A m \in inked : m <= k)

\* C20 as stated: the city is what follows the last space, the postal code
\* what lies between the last two spaces, and the street everything before,
\* less one trailing comma; a None label gives a None address
C20_SplitFromRight ==
    Returned("_mo_to_sd_address") =>
       LET a == call.args.address
       IN /\ a = NoneText => ret[1] = [raised |-> "", adresse |-> <<>>]
          /\ (a # NoneText /\ Cardinality(Spaces(a)) >= 2) =>
                ret[1].adresse = <<DropComma(SubSeq(a, 1, SpaceBefore(a) - 1)),
                                   SubSeq(a, SpaceBefore(a) + 1, LastSpace(a) - 1),
                                   SubSeq(a, LastSpace(a) + 1, Len(a))>>

\* C20, amended: as above, the street being moreover freed of the spaces
\* around it after the comma is removed; a label with fewer than two spaces
\* is not decomposed
C20_SplitFromRightTrimmed ==
    Returned("_mo_to_sd_address") =>
       LET a == call.args.address
       IN /\ a = NoneText => ret[1] = [raised |-> "", adresse |-> <<>>]
          /\ (a # NoneText /\ Cardinality(Spaces(a)) >= 2) =>
                /\ ret[1].raised = ""
                /\ ret[1].adresse = <<Trim(DropComma(SubSeq(a, 1, SpaceBefore(a) - 1))),
                                      SubSeq(a, SpaceBefore(a) + 1, LastSpace(a) - 1),
                                      SubSeq(a, LastSpace(a) + 1, Len(a))>>
          /\ (a # NoneText /\ Cardinality(Spaces(a)) < 2) => ret[1].raised = "ValueError"

C20_Witness ==
    /\ Returned("_mo_to_sd_address")
    /\ call.args.address = <<"T", " ", "T", ",", " ", "T", " ", "T">>
    /\ ret[1].adresse = <<<<"T", " ", "T">>, <<"T">>, <<"T">>>>

\* the address id of the first postal address create_address works on, and
\* whether its label has fewer than three space-separated parts
FirstDar == FirstWith(GivenAddresses, "scope", "DAR")
Undecomposable == FirstDar # None /\ Cardinality(Spaces(LabelOf(FirstDar))) < MaxSplit

\* C21: when the label of the postal address cannot be decomposed into street,
\* postal code and city, the operation ends with an SDMoxError and no edit
\* document is published
C21_UndecomposableIsEngineError ==
    (call.fn = "create_address" /\ pc # "idle" /\ Undecomposable) =>
       /\ pc = "done"
       /\ result.kind = "SDMoxError"
       /\ published = <<>>

\* the endpoint gave an empty result
Empty(answer) == answer.status = "ok" /\ answer.objs = <<>>

\* the endpoint gave a non-empty result
Found(answer) == answer.status = "ok" /\ answer.objs # <<>>

\* C22: the lookup queries adresser, adgangsadresser, historik/adresser and
\* historik/adgangsadresser in this order, each after an empty result of the
\* one before; it returns a label of the first endpoint with a non-empty
\* result and queries none after it; it gives the not-found error exactly when
\* all four were queried and were empty
C22_FallbackOrder ==
    Returned("_get_dar_address") =>
       LET a == call.args.answers
           r == ret[1]
           n == Len(r.queried)
       IN /\ n \in 1..4
          /\ r.queried = SubSeq(<<"adresser", "adgangsadresser", "historik/adresser",
                                  "historik/adgangsadresser">>, 1, n)
          /\ \A k \in 1..(n - 1) : Empty(a[k])
          /\ r.raised = "" <=> Found(a[n])
          /\ r.raised = "" => \E j \in 1..Len(a[n].objs) : r.label = a[n].objs[j]
          /\ r.raised = "Addresse ikke fundet i DAR" <=> \A k \in 1..4 : Empty(a[k])
          /\ r.raised = "Addresse ikke fundet i DAR" => n = 4
          /\ \A k \in 1..4 :
                (Found(a[k]) /\ \A j \in 1..(k - 1) : Empty(a[j])) => (r.raised = "" /\ n = k)

C22_Witness ==
    /\ Returned("_get_dar_address")
    /\ Empty(call.args.answers[1])
    /\ Empty(call.args.answers[2])
    /\ call.args.answers[3] = Objs(<<Label1>>)
    /\ call.args.answers[4] = Objs(<<Label2>>)
    /\ ret[1].label = Label1
    /\ ret[1].queried = <<"adresser", "adgangsadresser", "historik/adresser">>


-----------------------------------------------------------------------------
(* Properties of the construction                                             *)

\* the construction was refused because of the day of from_date
ConstructionRefused == op = "__init__" /\ pc = "done"

\* C23: a construction refused because from_date is not the first day of a
\* month is refused before anything else was done: the level catalog was not
\* read from the directory, and no part of the effective window was set.
C23_RefusedBeforeAnyProcessing ==
    ConstructionRefused =>
       /\ result.kind = "SDMoxError"
       /\ sd_levels = <<>>
       /\ level_by_uuid = <<>>
       /\ virkning = NoDate
       /\ times = NoTimes

\* the engine was constructed and was given a window
Windowed == pc # "new" /\ ~ConstructionRefused /\ from_date # NoDate

\* the end of the window as the construction asked for it
AskedEnd == IF to_date = NoDate THEN VirkTo ELSE to_date

\* C24: the end of the effective window is the to_date the engine was
\* constructed with, and 9999-12-31 exactly when none was given; every
\* published document that carries the window's end carries that date.
C24_WindowEnd ==
    Windowed =>
       /\ times.virk_to = strftime(AskedEnd)
       /\ (times.virk_to = strftime(VirkTo)) <=> (to_date = NoDate)
       /\ \A k \in 1..Len(published) :
             published[k].body.kind \in {"import", "flyt"} =>
                published[k].body.virk_to = strftime(AskedEnd)


\* C26: once the engine is constructed, no step of any public operation,
\* whether it succeeds, fails or runs dry, changes the level catalog
\* (sd_levels, level_by_uuid) or the effective window (virkning, _times).
C26_CatalogAndWindowKept ==
    [][pc # "new" => UNCHANGED <<sd_levels, level_by_uuid, virkning, times>>]_vars

\* a create document was rendered from the window and published, the operation
\* returned, and the window is what the construction made it
C26_Witness ==
    /\ op = "create_unit"
    /\ pc = "done"
    /\ result.kind = "return"
    /\ published # <<>>
    /\ published[1].body.kind = "import"
    /\ published[1].body.virk_from = times.virk_from
    /\ times = [virk_from |-> strftime(from_date), virk_to |-> strftime(VirkTo)]
    /\ sd_levels = read_ou_levelkeys


-----------------------------------------------------------------------------
(* Properties of the operations as wholes                                     *)

\* the log entries of a registry read that was answered with a list
ListAnswers == {code_lookup("list"), parent_department([kind |-> "list", level |-> None])}

\* the operation ended with the non-unique error
NonUnique == pc = "done" /\ result.kind = "SDMoxError" /\ result.msg = "Afdeling ikke unik"

\* the step is a registry read answered with a list: the duplicate lookup, the
\* parent lookup, or the read of a verification attempt
ListRead ==
    \/ /\ pc \in {"create_code", "create_parent", "move_parent"}
       /\ Len(log') > Len(log)
       /\ \E k \in (Len(log) + 1)..Len(log') : log'[k] \in ListAnswers
    \/ /\ pc = "check_read"
       /\ sdUnit.kind = "list"
       /\ log' = Append(log, "_check_department")

\* C27: a registry read answered with a list ends the operation in that very
\* step with the non-unique error, nothing being published or compared any
\* more: in the duplicate lookup, in the parent lookup, and in a verification
\* attempt, where the attempts that remain are not used.
C27_ListAbortsAtOnce ==
    /\ [][ListRead => /\ NonUnique'
                      /\ published' = published
                      /\ i' = i
                      /\ errors' = errors]_vars
    /\ [](\A k \in 1..Len(log) : log[k] \in ListAnswers => k = Len(log) /\ NonUnique)

\* the first verification attempt of two was answered with a list
C27_Witness ==
    /\ NonUnique
    /\ amqp_check_retries = 2
    /\ i = 0
    /\ Count(log, "_check_department") = 1
    /\ log[Len(log)] = "_check_department"
    /\ sdUnit.kind = "list"


\* the kinds of the documents published so far, in order
Kinds == [k \in 1..Len(published) |-> published[k].body.kind]

\* the operation is inside _check_unit
Verifying == pc \in {"check_loop", "check_read", "check_parent", "check_after"}

\* the positions in the log of the submissions and of the verification reads
Submissions == {k \in 1..Len(log) : log[k] = "_call"}
VerificationReads == {k \in 1..Len(log) : log[k] \in {"_check_department", "_read_parent"}}

\* what a live or dry submission of these kinds leaves published
Submitted(kinds) == IF dry_run THEN <<>> ELSE kinds

\* C28: within one operation every document is submitted (or skipped, in a dry
\* run) before the first verification read; rename, move and the address
\* operations publish at most one document; create_unit publishes the create
\* document first and, for non-empty details, the edit document second, then
\* verifies the edit and only after that verification has passed the create;
\* without details it publishes only the create document and verifies that.
C28_PublishThenVerify ==
    /\ [](/\ \A k \in Submissions, m \in VerificationReads : k < m
          /\ Len(published) = Cardinality(Submissions)
          /\ op \in {"rename_unit", "move_unit", "create_address", "edit_address"}
                => Len(published) <= 1
          /\ op = "create_unit" => Kinds \in {<<>>, <<"import">>, <<"import", "ret">>})
    /\ [][Verifying => published' = published]_vars
    /\ [][(pc = "create_parent" /\ Verifying') =>
             IF unit_data.details # <<>>
             THEN Kinds' = Submitted(<<"import", "ret">>) /\ operation' = "ret"
             ELSE Kinds' = Submitted(<<"import">>) /\ operation' = "import"]_vars
    /\ [][(op = "create_unit" /\ operation = "ret" /\ operation' # "ret") =>
             /\ operation' = "import"
             /\ unit.kind = "one"
             /\ errors = <<>>]_vars

\* a live create_unit with details returned: create and edit were published in
\* that order, and the create was verified last
C28_Witness ==
    /\ op = "create_unit"
    /\ pc = "done"
    /\ result.kind = "return"
    /\ ~dry_run
    /\ Kinds = <<"import", "ret">>
    /\ operation = "import"
    /\ "_payload_edit" \in Range(log)
    /\ Cardinality(VerificationReads) >= 2


-----------------------------------------------------------------------------
(* Properties of the engine's dates                                           *)

\* the effective-from date a published document carries
EffectiveFrom(doc) == IF doc.kind = "ret" THEN strftime(doc.virkning) ELSE doc.virk_from

\* C30: every published document carries the from_date the engine was
\* constructed with as its effective-from date, every registry read asks about
\* that date, and a verification attempt reports the activation date exactly
\* when the registry's differs from it; that date is the first day of a month.
\* This is so whatever "at" the operation was called with, and an engine
\* constructed without a from_date publishes nothing.
C30_FromDateEverywhere ==
    /\ \A k \in 1..Len(published) :
          EffectiveFrom(published[k].body) = strftime(from_date)
    /\ reads \subseteq {from_date}
    /\ (Compared /\ operation \in {"ret", "import"}) =>
          (("Activation Date" \in Range(errors)) <=> (unit.dept.ActivationDate # from_date))
    /\ (published # <<>> \/ reads # {}) => from_date.day = 1
    /\ from_date = NoDate => published = <<>>

\* an engine constructed for 2019-01-01 renamed a unit "at" 2019-07-15: the
\* edit document and the registry read carry 2019-01-01, and the unit the
\* registry holds from that date on is accepted
C30_Witness ==
    /\ op = "rename_unit"
    /\ at = MidMonth
    /\ from_date = OldDate
    /\ Len(published) = 1
    /\ published[1].body.virkning = OldDate
    /\ reads = {OldDate}
    /\ Compared
    /\ unit.dept.ActivationDate = OldDate
    /\ errors = <<>>


-----------------------------------------------------------------------------
(* Properties of two interleaved invocations                                  *)

\* C25: every submission opens one new connection and channel and publishes one
\* document on that channel, with the reply queue declared on it, also when two
\* invocations on one engine are interleaved at their awaits: the k-th document
\* published went out on the k-th connection opened, there are as many
\* connections as submissions of the two invocations together, and a step that
\* publishes does so only on channels it has opened itself.
C25_OwnChannelPerSubmission ==
    /\ [](/\ connections = Len(published)
          /\ Len(published) = Count(log, "_call") + Count(other.log, "_call")
          /\ \A k \in 1..Len(published) :
                published[k].channel = k /\ published[k].reply_to = k)
    /\ [][/\ Len(published') >= Len(published)
          /\ SubSeq(published', 1, Len(published)) = published
          /\ \A k \in (Len(published) + 1)..Len(published') :
                /\ published'[k].channel > connections
                /\ published'[k].channel <= connections'
                /\ published'[k].reply_to = published'[k].channel]_vars

\* both invocations are under way, each has submitted, and the running one
\* submitted after the suspended one
C25_Witness ==
    /\ pc \notin {"idle", "done"}
    /\ other.pc \notin {"idle", "done"}
    /\ Count(log, "_call") >= 1
    /\ Count(other.log, "_call") >= 1
    /\ Len(published) = 3
    /\ channel = 3
    /\ callback_queue = 3

\* the create documents published for a unit code
Creates(code) ==
    {k \in 1..Len(published) :
        published[k].body.kind = "import" /\ published[k].body.unit_code = code}

\* C29: of two interleaved create_unit invocations for distinct units with the
\* same unit code, at most one publishes a create document for that code.
C29_OneCreatePerCode ==
    (/\ op = "create_unit"
     /\ other.op = "create_unit"
     /\ payload.unit_uuid # other.payload.unit_uuid
     /\ payload.unit_code = other.payload.unit_code)
       => Cardinality(Creates(payload.unit_code)) <= 1

=============================================================================
